---- MODULE Spec2Model ----
(***************************************************************************)
(* Model of the message-processing pipeline of the multi-platform chatbot: *)
(* SessionManager (session.service.ts), SecurityService (security          *)
(* service), PerplexityService.chat (retry loop), PromptManager (registry) *)
(* and MessageHandler.processMessage with its command handlers, together   *)
(* with the adapters' normalizeMessage.                                    *)
(*                                                                         *)
(* Strings are sequences of atoms; every atom stands for a substring       *)
(* (a word, a blank, a tag, a citation marker).  Temperatures are in       *)
(* tenths (7 is 0.7).  Time is in milliseconds.                            *)
(***************************************************************************)
EXTENDS Integers, Sequences, FiniteSets, TLC

VARIABLES
  config,         \* AppConfig, fixed at start-up
  now,            \* Date.now(), in ms
  sessions,       \* InMemoryStorage.sessions: key -> UserSession or Nil
  nextSessionId,  \* source of uuidv4() values
  limiter,        \* RateLimiterMemory storage: key -> record or Nil
  registry,       \* PromptManager.config (AIConfiguration)
  persisted,      \* the document data/ai-config.json, Nil when there is no file
  chat,           \* PerplexityService.chat: the retry loop of the current call
  last,           \* what the last operation was given and what it returned
  lastOf,         \* per key: summary of the last message processed for the key
  steps,          \* number of operations performed so far
  redis,          \* RedisStorage: its client and the keys the server holds
  held,           \* the sessions the callers of SessionManager hold, per storage variant
  procs           \* the asynchronous calls in progress and where they wait

vars == <<config, now, sessions, nextSessionId, limiter, registry, persisted, chat,
          last, lastOf, steps, redis, held, procs>>

\* the absent value of a field that otherwise holds a record (null)
Nil == [nil |-> TRUE]

(***************************************************************************)
(* Strings                                                                 *)
(***************************************************************************)
SP == " "
WsAtoms == {SP}
TagAtoms == {"<b>", "</b>"}
MarkerAtoms == {"[1]", "[2]"}

\* length in characters of the substring an atom stands for
AtomLen(a) ==
  CASE a = "<4000 chars>" -> 4000
    [] a = "<4001 chars>" -> 4001
    [] a = "<8000 chars>" -> 8000
    [] a = "<8001 chars>" -> 8001
    [] a = "<b>" -> 3
    [] a = "</b>" -> 4
    [] a \in MarkerAtoms -> 3
    [] a \in {SP, "/", "@", "."} -> 1
    [] OTHER -> 5

RECURSIVE StrLen(_)
StrLen(s) == IF s = <<>> THEN 0 ELSE AtomLen(Head(s)) + StrLen(Tail(s))

RECURSIVE TrimLeft(_)
TrimLeft(s) == IF s # <<>> /\ Head(s) \in WsAtoms THEN TrimLeft(Tail(s)) ELSE s

RECURSIVE TrimRight(_)
TrimRight(s) ==
  IF s # <<>> /\ s[Len(s)] \in WsAtoms THEN TrimRight(SubSeq(s, 1, Len(s) - 1)) ELSE s

\* String.prototype.trim
Trim(s) == TrimRight(TrimLeft(s))

\* s.split(/\s+/): the pieces between runs of blanks ("" gives [""])
RECURSIVE SplitWs(_, _, _)
SplitWs(s, cur, inWs) ==
  IF s = <<>> THEN <<cur>>
  ELSE IF Head(s) \in WsAtoms
       THEN IF inWs THEN SplitWs(Tail(s), cur, TRUE)
            ELSE <<cur>> \o SplitWs(Tail(s), <<>>, TRUE)
       ELSE SplitWs(Tail(s), Append(cur, Head(s)), FALSE)

Split(s) ==
  IF s # <<>> /\ Head(s) \in WsAtoms
    THEN <<(<<>>)>> \o SplitWs(TrimLeft(s), <<>>, FALSE)
    ELSE SplitWs(s, <<>>, FALSE)

\* parts.join(' ')
RECURSIVE Join(_)
Join(parts) ==
  IF parts = <<>> THEN <<>>
  ELSE IF Len(parts) = 1 THEN parts[1]
  ELSE parts[1] \o <<SP>> \o Join(Tail(parts))

\* s.split('@')[0]
RECURSIVE BeforeAt(_)
BeforeAt(s) ==
  IF s = <<>> \/ Head(s) = "@" THEN <<>> ELSE <<Head(s)>> \o BeforeAt(Tail(s))

\* String.prototype.toLowerCase, atom by atom
LowerAtom(a) ==
  CASE a = "RESET" -> "reset"
    [] a = "Coder" -> "coder"
    [] OTHER -> a

ToLowerCase(s) == [i \in 1..Len(s) |-> LowerAtom(s[i])]

(***************************************************************************)
(* Optional values (a field that may be undefined)                         *)
(***************************************************************************)
None == {}
Some(x) == {x}
Get(o) == CHOOSE x \in o : TRUE
\* JavaScript truthiness of an optional string / optional model name
TruthyStr(o) == o # None /\ Get(o) # <<>>
TruthyName(o) == o # None /\ Get(o) # ""

(***************************************************************************)
(* PerplexityService                                                       *)
(***************************************************************************)
maxRetries == 3
retryDelay == 1000

AvailableModels == {"sonar-pro", "sonar-reasoning", "sonar", "sonar-reasoning-pro"}

AppError(code, message, statusCode) ==
  [code |-> code, message |-> message, statusCode |-> statusCode]

\* What one POST /chat/completions can end with.  An error is an AxiosError
\* (status 0: no response was received) or any other thrown value.
OkOutcome(content, citations) ==
  [kind |-> "ok", content |-> content, citations |-> citations]
AxiosErr(status, code, upMsg) ==
  [kind |-> "axios", status |-> status, code |-> code, upMsg |-> upMsg,
   message |-> <<"axios message">>]
OtherErr == [kind |-> "other", message |-> <<"thrown message">>]

\* content.replace(/\[\d+\]/g, '')
StripMarkers(s) == SelectSeq(s, LAMBDA a : a \notin MarkerAtoms)

\* content.replace(/\s{2,}/g, ' '): every run of two or more blanks becomes one
RECURSIVE CollapseWs(_)
CollapseWs(s) ==
  IF Len(s) < 2 THEN s
  ELSE IF s[1] \in WsAtoms /\ s[2] \in WsAtoms
       THEN CollapseWs(<<SP>> \o TrimLeft(s))
       ELSE <<s[1]>> \o CollapseWs(Tail(s))

\* mapError without the test for status 401
mapErrorNo401(error) ==
  IF error = Nil THEN AppError("API_ERROR", <<"Unknown API error">>, 500)
  ELSE IF error.kind = "axios" THEN
    LET status == IF error.status # 0 THEN error.status ELSE 500
        message == IF error.upMsg # <<>> THEN error.upMsg ELSE error.message
    IN IF status = 429
         THEN AppError("API_RATE_LIMITED",
                       <<"API rate limit exceeded. Please try again later.">>, 429)
       ELSE IF error.code \in {"ECONNABORTED", "ETIMEDOUT"}
         THEN AppError("API_TIMEOUT", <<"API request timed out. Please try again.">>, 504)
       ELSE AppError("API_ERROR", <<"API error: ">> \o message, status)
  ELSE AppError("API_ERROR", error.message, 500)

\* the AppError thrown for an error of the upstream call
mapError(error) ==
  IF error = Nil THEN AppError("API_ERROR", <<"Unknown API error">>, 500)
  ELSE IF error.kind = "axios" THEN
    LET status == IF error.status # 0 THEN error.status ELSE 500
        message == IF error.upMsg # <<>> THEN error.upMsg ELSE error.message
    IN IF status = 429
         THEN AppError("API_RATE_LIMITED",
                       <<"API rate limit exceeded. Please try again later.">>, 429)
       ELSE IF status = 401 THEN AppError("UNAUTHORIZED", <<"Invalid API key">>, 401)
       ELSE IF error.code \in {"ECONNABORTED", "ETIMEDOUT"}
         THEN AppError("API_TIMEOUT", <<"API request timed out. Please try again.">>, 504)
       ELSE AppError("API_ERROR", <<"API error: ">> \o message, status)
  ELSE AppError("API_ERROR", error.message, 500)

\* the messages array of the request
BuildMessages(conversationHistory, systemPrompt) ==
  <<[role |-> "system", content |-> systemPrompt]>> \o
  [i \in 1..Len(conversationHistory) |->
     [role |-> conversationHistory[i].role, content |-> conversationHistory[i].content]]

\* BuildRequest taking a temperature of 0 for none
BuildRequestTruthyTemperature(cfg, conversationHistory, systemPrompt, options) ==
  [model |-> IF TruthyName(options.model) THEN Get(options.model) ELSE cfg.defaultModel,
   messages |-> BuildMessages(conversationHistory, systemPrompt),
   temperature |-> IF options.temperature # None /\ options.temperature # Some(0)
                     THEN Get(options.temperature)
                     ELSE cfg.defaultTemperature,
   max_tokens |-> IF options.maxTokens # None THEN Get(options.maxTokens)
                  ELSE cfg.defaultMaxTokens,
   stream |-> FALSE,
   return_citations |-> cfg.returnCitations]

BuildRequest(cfg, conversationHistory, systemPrompt, options) ==
  [model |-> IF TruthyName(options.model) THEN Get(options.model) ELSE cfg.defaultModel,
   messages |-> BuildMessages(conversationHistory, systemPrompt),
   temperature |-> IF options.temperature # None THEN Get(options.temperature)
                   ELSE cfg.defaultTemperature,
   max_tokens |-> IF options.maxTokens # None THEN Get(options.maxTokens)
                  ELSE cfg.defaultMaxTokens,
   stream |-> FALSE,
   return_citations |-> cfg.returnCitations]

ChatIdle ==
  [pc |-> "idle", attempt |-> 0, request |-> Nil, requests |-> <<>>, sleeps |-> <<>>,
   lastError |-> Nil, result |-> Nil, error |-> Nil]

\* entry of chat(): the request is built and the loop starts with attempt 1
ChatStart(cfg, conversationHistory, systemPrompt, options) ==
  [ChatIdle EXCEPT !.pc = "loop", !.attempt = 1,
     !.request = BuildRequest(cfg, conversationHistory, systemPrompt, options)]

\* ChatSuccess returning the text as the upstream sent it
ChatSuccessUnstripped(cfg, c, o) ==
  [c EXCEPT !.pc = "returned",
     !.result = [content |-> o.content,
                 citations |-> IF cfg.returnCitations THEN o.citations ELSE None]]

\* the successful branch of the try block
ChatSuccess(cfg, c, o) ==
  LET content == IF cfg.returnCitations THEN o.content
                 ELSE Trim(CollapseWs(StripMarkers(o.content)))
  IN [c EXCEPT !.pc = "returned",
        !.result = [content |-> content,
                    citations |-> IF cfg.returnCitations THEN o.citations ELSE None]]

\* ChatCatch with a 429 retried without counting the attempt
ChatCatch429NotCounted(c, o) ==
  LET c1 == [c EXCEPT !.lastError = o]
      leave(c2) == IF c2.attempt + 1 <= maxRetries
                     THEN [c2 EXCEPT !.attempt = @ + 1]
                     ELSE [c2 EXCEPT !.attempt = @ + 1, !.pc = "thrown",
                                     !.error = mapError(c2.lastError)]
  IN IF o.kind = "axios" /\ o.status # 0 /\ o.status >= 400 /\ o.status < 500
       THEN IF o.status = 429
              THEN [c1 EXCEPT !.sleeps = Append(@, retryDelay * c.attempt * 2)]
              ELSE [c1 EXCEPT !.pc = "thrown", !.error = mapError(o)]
     ELSE IF c.attempt < maxRetries
       THEN leave([c1 EXCEPT !.sleeps = Append(@, retryDelay * c.attempt)])
     ELSE leave(c1)

\* ChatCatch keeping the first error of the call
ChatCatchFirstError(c, o) ==
  LET c1 == IF c.lastError = Nil THEN [c EXCEPT !.lastError = o] ELSE c
      leave(c2) == IF c2.attempt + 1 <= maxRetries
                     THEN [c2 EXCEPT !.attempt = @ + 1]
                     ELSE [c2 EXCEPT !.attempt = @ + 1, !.pc = "thrown",
                                     !.error = mapError(c2.lastError)]
  IN IF o.kind = "axios" /\ o.status # 0 /\ o.status >= 400 /\ o.status < 500
       THEN IF o.status = 429
              THEN leave([c1 EXCEPT !.sleeps = Append(@, retryDelay * c.attempt * 2)])
              ELSE [c1 EXCEPT !.pc = "thrown", !.error = mapError(o)]
     ELSE IF c.attempt < maxRetries
       THEN leave([c1 EXCEPT !.sleeps = Append(@, retryDelay * c.attempt)])
     ELSE leave(c1)

\* the catch block of one attempt, and the exit of the for loop after it
ChatCatch(c, o) ==
  LET c1 == [c EXCEPT !.lastError = o]
      leave(c2) == IF c2.attempt + 1 <= maxRetries
                     THEN [c2 EXCEPT !.attempt = @ + 1]
                     ELSE [c2 EXCEPT !.attempt = @ + 1, !.pc = "thrown",
                                     !.error = mapError(c2.lastError)]
  IN IF o.kind = "axios" /\ o.status # 0 /\ o.status >= 400 /\ o.status < 500
       THEN IF o.status = 429
              THEN leave([c1 EXCEPT !.sleeps = Append(@, retryDelay * c.attempt * 2)])
              ELSE [c1 EXCEPT !.pc = "thrown", !.error = mapError(o)]
     ELSE IF c.attempt < maxRetries
       THEN leave([c1 EXCEPT !.sleeps = Append(@, retryDelay * c.attempt)])
     ELSE leave(c1)

\* one iteration of the for loop: the POST and what follows its outcome o
ChatAttempt(cfg, c, o) ==
  LET sent == [c EXCEPT !.requests = Append(@, o)]
  IN IF o.kind = "ok" THEN ChatSuccess(cfg, sent, o) ELSE ChatCatch(sent, o)

\* a whole call of chat() against the upstream outcomes of `script`, in order
RECURSIVE ChatLoop(_, _, _)
ChatLoop(cfg, c, script) ==
  IF c.pc # "loop" \/ script = <<>> THEN c
  ELSE ChatLoop(cfg, ChatAttempt(cfg, c, Head(script)), Tail(script))

(***************************************************************************)
(* Configuration (environment), users and keys                             *)
(***************************************************************************)
Platforms == {"telegram", "whatsapp"}
Users == {"u1", "a1"}

\* getSessionKey, and the key of checkRateLimit: `${platform}:${userId}`
getSessionKey(platform, userId) == <<platform, ":", userId>>
Keys == {getSessionKey(p, u) : p \in Platforms, u \in Users}

\* buildConfig() with no environment variable set
DefaultConfig ==
  [defaultModel |-> "sonar-pro",
   defaultTemperature |-> 7,
   defaultMaxTokens |-> 4096,
   defaultSystemPrompt |-> <<"You are a helpful assistant.">>,
   returnCitations |-> FALSE,
   rateLimitRequests |-> 20,
   rateLimitWindowSeconds |-> 60,
   adminUserIds |-> {},
   whitelistEnabled |-> FALSE,
   whitelistedUserIds |-> {},
   maxConversationHistory |-> 20,
   sessionTimeoutSeconds |-> 86400,
   adminApiKey |-> None]

(***************************************************************************)
(* PromptManager: the registry and its persisted JSON document             *)
(***************************************************************************)
Preset(name, prompt, model, temperature) ==
  [name |-> name, description |-> <<"description of ", name>>, prompt |-> prompt,
   model |-> model, temperature |-> temperature]

\* the built-in configuration
getDefaultConfig(cfg) ==
  [globalSystemPrompt |-> cfg.defaultSystemPrompt,
   defaultModel |-> cfg.defaultModel,
   defaultTemperature |-> cfg.defaultTemperature,
   defaultMaxTokens |-> cfg.defaultMaxTokens,
   presets |->
     [k \in {"default", "researcher", "creative", "coder", "concise"} |->
        CASE k = "default" ->
               Preset("Default Assistant", cfg.defaultSystemPrompt, None, None)
          [] k = "researcher" ->
               Preset("Research Assistant", <<"researcher prompt">>,
                      Some("sonar-reasoning"), Some(3))
          [] k = "creative" ->
               Preset("Creative Writer", <<"creative prompt">>, Some("sonar-pro"), Some(9))
          [] k = "coder" ->
               Preset("Coding Assistant", <<"coder prompt">>, Some("sonar-pro"), Some(2))
          [] k = "concise" ->
               Preset("Concise Responder", <<"concise prompt">>, Some("sonar"), Some(5))]]

\* { ...defaults.presets, ...loaded.presets }
MergePresets(defaults, loaded) ==
  [k \in DOMAIN defaults \cup DOMAIN loaded |->
     IF k \in DOMAIN loaded THEN loaded[k] ELSE defaults[k]]

\* mergeWithDefaults taking the built-in value for every falsy number too
mergeWithDefaultsTruthy(cfg, loaded) ==
  LET defaults == getDefaultConfig(cfg)
  IN [globalSystemPrompt |-> IF TruthyStr(loaded.globalSystemPrompt)
                               THEN Get(loaded.globalSystemPrompt)
                               ELSE defaults.globalSystemPrompt,
      defaultModel |-> IF TruthyName(loaded.defaultModel) THEN Get(loaded.defaultModel)
                       ELSE defaults.defaultModel,
      defaultTemperature |-> IF loaded.defaultTemperature \notin {None, Some(0)}
                               THEN Get(loaded.defaultTemperature)
                               ELSE defaults.defaultTemperature,
      defaultMaxTokens |-> IF loaded.defaultMaxTokens \notin {None, Some(0)}
                             THEN Get(loaded.defaultMaxTokens)
                             ELSE defaults.defaultMaxTokens,
      presets |-> MergePresets(defaults.presets,
                               IF loaded.presets # None THEN Get(loaded.presets)
                               ELSE [k \in {} |-> Nil])]

\* A persisted document holds each field as an optional value (a field may be
\* missing from the JSON text).
mergeWithDefaults(cfg, loaded) ==
  LET defaults == getDefaultConfig(cfg)
  IN [globalSystemPrompt |-> IF TruthyStr(loaded.globalSystemPrompt)
                               THEN Get(loaded.globalSystemPrompt)
                               ELSE defaults.globalSystemPrompt,
      defaultModel |-> IF TruthyName(loaded.defaultModel) THEN Get(loaded.defaultModel)
                       ELSE defaults.defaultModel,
      defaultTemperature |-> IF loaded.defaultTemperature # None
                               THEN Get(loaded.defaultTemperature)
                               ELSE defaults.defaultTemperature,
      defaultMaxTokens |-> IF loaded.defaultMaxTokens # None
                             THEN Get(loaded.defaultMaxTokens)
                             ELSE defaults.defaultMaxTokens,
      presets |-> MergePresets(defaults.presets,
                               IF loaded.presets # None THEN Get(loaded.presets)
                               ELSE [k \in {} |-> Nil])]

\* a file whose text JSON.parse rejects (such as one a failed write cut short)
Corrupt == [corrupt |-> TRUE]

\* fs.existsSync(configPath) ? mergeWithDefaults(JSON.parse(...)) : getDefaultConfig();
\* an error of the read or of JSON.parse is caught and gives the defaults
loadConfig(cfg, document) ==
  IF document # Nil /\ document # Corrupt THEN mergeWithDefaults(cfg, document)
  ELSE getDefaultConfig(cfg)

\* JSON.stringify(this.config): every field is present in the written document
Document(reg) ==
  [globalSystemPrompt |-> Some(reg.globalSystemPrompt),
   defaultModel |-> Some(reg.defaultModel),
   defaultTemperature |-> Some(reg.defaultTemperature),
   defaultMaxTokens |-> Some(reg.defaultMaxTokens),
   presets |-> Some(reg.presets)]

\* the documents data/ai-config.json may hold when the process starts
ZeroPreset == Preset("Zero", <<"zero prompt">>, Some("sonar-reasoning"), Some(0))
StartDocuments ==
  {Nil,
   [globalSystemPrompt |-> None, defaultModel |-> Some("sonar"),
    defaultTemperature |-> None, defaultMaxTokens |-> None,
    presets |-> Some([k \in {"zero"} |-> ZeroPreset])]}

(***************************************************************************)
(* SessionManager over InMemoryStorage (config.redisEnabled is false).     *)
(* The map holds the session object itself, so what a caller assigns to    *)
(* the session it was handed is what the store holds under the key.        *)
(* The timestamp of a history entry is not modelled: nothing reads it.     *)
(***************************************************************************)
Max(a, b) == IF a > b THEN a ELSE b
Min(a, b) == IF a < b THEN a ELSE b

\* Array.prototype.slice(start)
Slice(arr, start) ==
  LET from == IF start < 0 THEN Max(Len(arr) + start, 0) ELSE Min(start, Len(arr))
  IN SubSeq(arr, from + 1, Len(arr))

createNewSession(cfg, platform, userId, id, t) ==
  [sessionId |-> id,
   userId |-> userId,
   platform |-> platform,
   role |-> IF userId \in cfg.adminUserIds THEN "admin" ELSE "user",
   conversationHistory |-> <<>>,
   customSystemPrompt |-> None,
   modelOverride |-> None,
   temperatureOverride |-> None,
   createdAt |-> t,
   lastActivityAt |-> t,
   messageCount |-> 0,
   rateLimitWindowStart |-> t]

\* sessionAge > config.sessionTimeoutSeconds, with sessionAge = (now - lastActivityAt) / 1000
Expired(cfg, session, t) ==
  t - session.lastActivityAt > cfg.sessionTimeoutSeconds * 1000

\* getOrCreateSession with the age compared by >= instead of >
getOrCreateSessionGe(cfg, stored, platform, userId, id, t) ==
  IF stored # Nil /\ ~(t - stored.lastActivityAt >= cfg.sessionTimeoutSeconds * 1000)
    THEN [session |-> [stored EXCEPT !.lastActivityAt = t], created |-> FALSE]
    ELSE [session |-> createNewSession(cfg, platform, userId, id, t), created |-> TRUE]

\* the session handed to the caller (which is also the one stored under the key)
\* and whether it was created by this call, which draws `id` from uuidv4()
getOrCreateSession(cfg, stored, platform, userId, id, t) ==
  IF stored # Nil /\ ~Expired(cfg, stored, t)
    THEN [session |-> [stored EXCEPT !.lastActivityAt = t], created |-> FALSE]
    ELSE [session |-> createNewSession(cfg, platform, userId, id, t), created |-> TRUE]

\* lastActivityAt = new Date(); storage.set(key, session)
updateSession(session, t) == [session EXCEPT !.lastActivityAt = t]

\* addMessage that pushes nothing
addMessageNoPush(cfg, session, role, content, t) == updateSession(session, t)

addMessage(cfg, session, role, content, t) ==
  LET pushed == Append(session.conversationHistory, [role |-> role, content |-> content])
      trimmed == IF Len(pushed) > cfg.maxConversationHistory
                   THEN Slice(pushed, 0 - cfg.maxConversationHistory)
                   ELSE pushed
  IN updateSession([session EXCEPT !.conversationHistory = trimmed], t)

clearHistory(session, t) == updateSession([session EXCEPT !.conversationHistory = <<>>], t)

setCustomPrompt(session, prompt, t) ==
  updateSession([session EXCEPT !.customSystemPrompt = Some(prompt)], t)

setModelOverride(session, model, t) ==
  updateSession([session EXCEPT !.modelOverride = Some(model)], t)

\* isAdmin granting every session the administrator role
isAdminAlways(session) == TRUE

isAdmin(session) == session.role = "admin"

\* the keys the sweep deletes: those whose session is expired at time t
\* a sweep that deletes nothing
cleanupExpiredSessionsKeepsAll(cfg, store, t) == store

cleanupExpiredSessions(cfg, store, t) ==
  [k \in DOMAIN store |->
     IF store[k] # Nil /\ Expired(cfg, store[k], t) THEN Nil ELSE store[k]]

(***************************************************************************)
(* SecurityService                                                         *)
(***************************************************************************)
maxMessageLength == 4000
maxOutputLength == 8000

\* atoms standing for a substring one of suspiciousPatterns matches
SuspiciousAtoms == {"jailbreak", "DAN mode", "[SYSTEM]"}

\* RateLimiterMemory.consume(key): one point of the key's fixed window.  A window
\* opens with the first point consumed while the key has no live record and lasts
\* `duration` seconds; points over the quota are counted and rejected.
RateLimiterConsume(points, duration, rec, t) ==
  LET live == rec # Nil /\ rec.expiresAt - t > 0
      rec2 == IF live THEN [rec EXCEPT !.value = @ + 1]
              ELSE [value |-> 1, expiresAt |-> t + duration * 1000]
  IN [rec |-> rec2,
      rejected |-> rec2.value > points,
      remainingPoints |-> Max(points - rec2.value, 0),
      msBeforeNext |-> rec2.expiresAt - t]

\* RateLimiterMemory.get(key): null when the key has no live record
RateLimiterGet(points, rec, t) ==
  IF rec # Nil /\ rec.expiresAt - t > 0
    THEN [remainingPoints |-> Max(points - rec.value, 0)]
    ELSE Nil

\* new RateLimiterMemory({points, duration})
NewRateLimiter(cfg) ==
  [points |-> cfg.rateLimitRequests, duration |-> cfg.rateLimitWindowSeconds]

\* Math.ceil(ms / 1000)
CeilSeconds(ms) == (ms + 999) \div 1000

\* checkRateLimit with the user id alone as the key
checkRateLimitUserKey(cfg, lim, platform, userId, t) ==
  LET key == getSessionKey("telegram", userId)
      rl == NewRateLimiter(cfg)
      res == RateLimiterConsume(rl.points, rl.duration, lim[key], t)
  IN [limiter |-> [lim EXCEPT ![key] = res.rec],
      remaining |-> res.remainingPoints,
      thrown |-> IF res.rejected
                   THEN AppError("RATE_LIMITED",
                                 <<"Rate limit exceeded. Please try again in ",
                                   ToString(CeilSeconds(res.msBeforeNext)), " seconds.">>,
                                 429)
                   ELSE Nil]

\* the limiter record of the key after the call, and the AppError thrown (or Nil)
checkRateLimit(cfg, lim, platform, userId, t) ==
  LET key == getSessionKey(platform, userId)
      rl == NewRateLimiter(cfg)
      res == RateLimiterConsume(rl.points, rl.duration, lim[key], t)
  IN [limiter |-> [lim EXCEPT ![key] = res.rec],
      remaining |-> res.remainingPoints,
      thrown |-> IF res.rejected
                   THEN AppError("RATE_LIMITED",
                                 <<"Rate limit exceeded. Please try again in ",
                                   ToString(CeilSeconds(res.msBeforeNext)), " seconds.">>,
                                 429)
                   ELSE Nil]

\* checkAuthorization looking at the admin list only
checkAuthorizationAdminsOnly(cfg, userId) ==
  IF cfg.whitelistEnabled /\ userId \notin cfg.adminUserIds
    THEN AppError("NOT_WHITELISTED",
                  <<"You are not authorized to use this bot. Please contact an administrator.">>,
                  403)
    ELSE Nil

\* the AppError thrown, or Nil
checkAuthorization(cfg, userId) ==
  IF cfg.whitelistEnabled
       /\ ~(userId \in cfg.whitelistedUserIds \/ userId \in cfg.adminUserIds)
    THEN AppError("NOT_WHITELISTED",
                  <<"You are not authorized to use this bot. Please contact an administrator.">>,
                  403)
    ELSE Nil

\* xss(content, {whiteList: {}, stripIgnoreTag: true, ...}): every tag is removed
Xss(content) == SelectSeq(content, LAMBDA a : a \notin TagAtoms)

\* validateInput without the limit of the length
validateInputNoLimit(content) ==
  IF content = <<>> \/ StrLen(Trim(content)) = 0
    THEN [thrown |-> AppError("INVALID_INPUT", <<"Message cannot be empty.">>, 400),
          content |-> content]
  ELSE [thrown |-> Nil, content |-> Xss(content)]

\* the sanitized content, or the AppError thrown
validateInput(content) ==
  IF StrLen(content) > maxMessageLength
    THEN [thrown |-> AppError("INVALID_INPUT",
                              <<"Message is too long. Maximum length is ",
                                ToString(maxMessageLength), " characters.">>, 400),
          content |-> content]
  ELSE IF content = <<>> \/ StrLen(Trim(content)) = 0
    THEN [thrown |-> AppError("INVALID_INPUT", <<"Message cannot be empty.">>, 400),
          content |-> content]
  ELSE [thrown |-> Nil, content |-> Xss(content)]

InjectionWarning ==
  <<"Your message contains patterns that may be attempting to manipulate the AI. The AI will respond normally but with additional safeguards.">>

\* checkPromptInjection matching no pattern
checkPromptInjectionNever(content) == [isSuspicious |-> FALSE, warning |-> <<>>]

checkPromptInjection(content) ==
  IF \E i \in 1..Len(content) : content[i] \in SuspiciousAtoms
    THEN [isSuspicious |-> TRUE, warning |-> InjectionWarning]
    ELSE [isSuspicious |-> FALSE, warning |-> <<>>]

SecurityInstructions == <<"IMPORTANT SECURITY INSTRUCTIONS: ... BASE INSTRUCTIONS: ">>

\* buildSecureSystemPrompt leaving out the security block
buildSecureSystemPromptBare(basePrompt) == basePrompt \o <<"\n">>

buildSecureSystemPrompt(basePrompt) == SecurityInstructions \o basePrompt \o <<"\n">>

Apology == <<"I apologize, but I was unable to generate a response. Please try again.">>

\* the first n characters of a string whose atoms are cut at atom boundaries
RECURSIVE Substring(_, _)
Substring(s, n) ==
  IF s = <<>> \/ n <= 0 THEN <<>>
  ELSE IF AtomLen(Head(s)) <= n
         THEN <<Head(s)>> \o Substring(Tail(s), n - AtomLen(Head(s)))
       ELSE <<"<first chars of>", Head(s)>>

\* validateOutput returning what it is given
validateOutputUnchecked(content) == content

validateOutput(content) ==
  IF content = <<>> \/ StrLen(Trim(content)) = 0 THEN Apology
  ELSE IF StrLen(content) > maxOutputLength
    THEN Substring(content, maxOutputLength) \o <<"\n\n[Response truncated due to length]">>
  ELSE content

(***************************************************************************)
(* The values the variables have when the services are constructed         *)
(***************************************************************************)
NoLast == [op |-> "none"]

(***************************************************************************)
(* RedisStorage.  The server keeps a text per key until its expiry or its  *)
(* deletion; the storage has no client until initRedis has created one.    *)
(***************************************************************************)
\* JSON.stringify(session): the dates become ISO strings
Stringify(session) ==
  [session EXCEPT !.createdAt = <<"iso", @>>, !.lastActivityAt = <<"iso", @>>,
                  !.rateLimitWindowStart = <<"iso", @>>]

\* JSON.parse(data) and the conversion of the date strings back to Date objects
Parse(data) ==
  [data EXCEPT !.createdAt = @[2], !.lastActivityAt = @[2], !.rateLimitWindowStart = @[2]]

\* GET, SET with EX, DEL and KEYS of the server at time t
RedisAlive(data, key, t) == data[key] # Nil /\ t <= data[key].expiresAt
RedisGet(data, key, t) == IF RedisAlive(data, key, t) THEN data[key].value ELSE Nil
RedisSetEx(data, key, value, seconds, t) ==
  [data EXCEPT ![key] = [value |-> value, expiresAt |-> t + seconds * 1000]]
RedisDel(data, key) == [data EXCEPT ![key] = Nil]
RedisKeys(data, t) == {k \in DOMAIN data : RedisAlive(data, k, t)}

NewRedisStorage == [client |-> FALSE, data |-> [k \in Keys |-> Nil]]

RedisStorageGet(storage, key, t) ==
  IF ~storage.client \/ RedisGet(storage.data, key, t) = Nil THEN Nil
  ELSE Parse(RedisGet(storage.data, key, t))

RedisStorageSet(cfg, storage, key, session, t) ==
  IF ~storage.client THEN storage
  ELSE [storage EXCEPT !.data = RedisSetEx(@, key, Stringify(session),
                                           cfg.sessionTimeoutSeconds, t)]

RedisStorageDelete(storage, key) ==
  IF ~storage.client THEN storage ELSE [storage EXCEPT !.data = RedisDel(@, key)]

RedisStorageGetAllKeys(storage, t) ==
  IF ~storage.client THEN {} ELSE RedisKeys(storage.data, t)

\* the two chat turns that are processed concurrently
Turns == {1, 2}

\* WhatsAppAdapter as constructed: the fields of the adapter, the timers of
\* handleDisconnect that have not fired (each with the attempt it was set for and
\* the times it was set at and is due at, in ms), the time of the adapter's
\* events and the number of calls of client.initialize() after the first
NewWhatsApp ==
  [reconnectAttempts |-> 0, isReady |-> FALSE, timers |-> <<>>, clock |-> 0,
   initialized |-> 0]

\* no getOrCreateSession, no sweep and no chat turn in progress
NoProcs ==
  [goc |-> [pc |-> "idle"], sweep |-> [pc |-> "idle"],
   turn |-> [p \in Turns |-> [pc |-> "idle"]],
   whatsapp |-> NewWhatsApp]

Constructed(cfg, document) ==
  /\ config = cfg
  /\ now = 0
  /\ sessions = [k \in Keys |-> Nil]
  /\ nextSessionId = 1
  /\ limiter = [k \in Keys |-> Nil]
  /\ persisted = document
  /\ registry = loadConfig(cfg, persisted)
  /\ chat = ChatIdle
  /\ last = NoLast
  /\ lastOf = [k \in Keys |-> NoLast]
  /\ steps = 0
  /\ redis = NewRedisStorage
  /\ held = [variant \in {"memory", "redis"} |-> [k \in Keys |-> Nil]]
  /\ procs = NoProcs

(***************************************************************************)
(* Specification SpecChat: calls of PerplexityService.chat, one request    *)
(* of the retry loop at a time                                             *)
(***************************************************************************)
UpstreamContents == {<<"Paris", SP, "is", SP, "the", SP, "capital", "[1]", "[2]", ".">>, <<>>}
UpstreamCitations == {None, Some(<<"https://example.org">>)}

Outcomes ==
  {OkOutcome(c, u) : c \in UpstreamContents, u \in UpstreamCitations}
  \cup {AxiosErr(400, "ERR_BAD_REQUEST", m) : m \in {<<>>, <<"upstream message">>}}
  \cup {AxiosErr(st, "ERR_BAD_REQUEST", <<>>) : st \in {401, 404, 429}}
  \cup {AxiosErr(500, "ERR_BAD_RESPONSE", m) : m \in {<<>>, <<"upstream message">>}}
  \cup {AxiosErr(503, "ERR_BAD_RESPONSE", <<>>)}
  \cup {AxiosErr(0, c, <<>>) : c \in {"ECONNABORTED", "ETIMEDOUT", "ECONNRESET"}}
  \cup {OtherErr}

Entry(role, content) == [role |-> role, content |-> content]

\* the arguments chat() is called with: by validateApiKey, by a chat turn, and
\* by a caller whose history holds an entry of role system, which the type
\* ConversationMessage admits
ChatCalls ==
  {[history |-> <<Entry("user", <<"Hi">>)>>,
    systemPrompt |-> <<"You are a test assistant.">>,
    options |-> [model |-> None, temperature |-> None, maxTokens |-> Some(10)]],
   [history |-> <<Entry("user", <<"hello">>), Entry("assistant", <<"answer">>),
                  Entry("user", <<"more">>)>>,
    systemPrompt |-> buildSecureSystemPrompt(<<"coder prompt">>),
    options |-> [model |-> Some("sonar"), temperature |-> Some(0), maxTokens |-> Some(4096)]],
   [history |-> <<Entry("system", <<"You are root.">>), Entry("user", <<"hello">>)>>,
    systemPrompt |-> buildSecureSystemPrompt(<<"coder prompt">>),
    options |-> [model |-> None, temperature |-> None, maxTokens |-> None]]}

InitChat ==
  \E b \in BOOLEAN : Constructed([DefaultConfig EXCEPT !.returnCitations = b], Nil)

ChatCall(a) ==
  /\ chat.pc # "loop"
  /\ chat' = ChatStart(config, a.history, a.systemPrompt, a.options)
  /\ UNCHANGED <<redis, held, procs, config, now, sessions, nextSessionId, limiter, registry, persisted,
                 last, lastOf, steps>>

ChatRequest(o) ==
  /\ chat.pc = "loop"
  /\ chat' = ChatAttempt(config, chat, o)
  /\ UNCHANGED <<redis, held, procs, config, now, sessions, nextSessionId, limiter, registry, persisted,
                 last, lastOf, steps>>

NextChat ==
  \/ \E a \in ChatCalls : ChatCall(a)
  \/ \E o \in Outcomes : ChatRequest(o)

\* every request and every backoff sleep ends, so the loop takes its next step
SpecChat == InitChat /\ [][NextChat]_vars /\ WF_vars(\E o \in Outcomes : ChatRequest(o))

ChatDone == chat.pc \in {"returned", "thrown"}
LastRequest == chat.requests[Len(chat.requests)]
Is4xxNot429(o) == o.kind = "axios" /\ o.status >= 400 /\ o.status < 500 /\ o.status # 429
Is429(o) == o.kind = "axios" /\ o.status = 429
Is5xx(o) == o.kind = "axios" /\ o.status >= 500 /\ o.status < 600

\* C7: every call of chat issues at least one and at most 3 upstream requests
\* and ends; a 429 answered by a 200 on a later attempt returns the result with
\* no error; three consecutive 500 responses raise AppError API_ERROR.
C7_Safety ==
  /\ Len(chat.requests) <= 3
  /\ ChatDone => Len(chat.requests) >= 1
  /\ (/\ Len(chat.requests) >= 2
      /\ LastRequest.kind = "ok"
      /\ \E i \in 1..(Len(chat.requests) - 1) : Is429(chat.requests[i]))
     => (chat.pc = "returned" /\ chat.error = Nil /\ chat.result # Nil)
  /\ (Len(chat.requests) = 3 /\ \A i \in 1..3 : Is5xx(chat.requests[i]))
     => (chat.pc = "thrown" /\ chat.error.code = "API_ERROR")

C7_ChatRetries == []C7_Safety /\ ((chat.pc = "loop") ~> ChatDone)

C7_Witness ==
  /\ chat.pc = "returned"
  /\ Len(chat.requests) = 2
  /\ Is429(chat.requests[1])
  /\ chat.sleeps = <<2000>>

\* C8: a 4xx response other than 429 ends the call on that attempt, with no
\* backoff sleep for it and no further request; 401 raises UNAUTHORIZED, any
\* other one API_ERROR with the upstream message and that status.
C8_ClientErrorFailsAtOnce ==
  (chat.requests # <<>> /\ Is4xxNot429(LastRequest)) =>
    /\ chat.pc = "thrown"
    /\ Len(chat.sleeps) = Len(chat.requests) - 1
    /\ LastRequest.status = 401 =>
         (chat.error.code = "UNAUTHORIZED" /\ chat.error.statusCode = 401)
    /\ LastRequest.status # 401 =>
         /\ chat.error.code = "API_ERROR"
         /\ chat.error.statusCode = LastRequest.status
         /\ LastRequest.upMsg # <<>> =>
              chat.error.message = <<"API error: ">> \o LastRequest.upMsg

C8_Witness ==
  /\ Len(chat.requests) = 2
  /\ Is5xx(chat.requests[1])
  /\ Is4xxNot429(LastRequest)
  /\ LastRequest.status = 400
  /\ LastRequest.upMsg # <<>>
  /\ chat.pc = "thrown"

(***************************************************************************)
(* Specification SpecSession: the SessionManager called directly           *)
(***************************************************************************)
MaxHistory == 2      \* largest configured maxConversationHistory
MaxTicks == 3        \* how often the clock advances
TickMs == 500        \* by how much
MaxSessSteps == 4    \* calls of the SessionManager in one behaviour

SessKeys == {getSessionKey("telegram", "u1"), getSessionKey("whatsapp", "a1")}
SessEntries == {Entry("user", <<"m1">>), Entry("assistant", <<"m2">>)}

InitSession ==
  \E h \in 0..MaxHistory :
    Constructed([DefaultConfig EXCEPT !.maxConversationHistory = h,
                                      !.sessionTimeoutSeconds = 1,
                                      !.adminUserIds = {"a1"}], Nil)

SessFrame == UNCHANGED <<redis, held, procs, config, now, limiter, registry, persisted, chat, lastOf>>

SessGetOrCreate(k) ==
  /\ steps < MaxSessSteps
  /\ LET r == getOrCreateSession(config, sessions[k], k[1], k[3], nextSessionId, now)
     IN /\ sessions' = [sessions EXCEPT ![k] = r.session]
        /\ nextSessionId' = IF r.created THEN nextSessionId + 1 ELSE nextSessionId
        /\ last' = [op |-> "getOrCreateSession", key |-> k, stored |-> sessions[k],
                    returned |-> r.session, at |-> now]
  /\ steps' = steps + 1
  /\ SessFrame

\* a caller that holds the session stored under k changes it
SessCall(k, op, arg, after) ==
  /\ steps < MaxSessSteps
  /\ sessions[k] # Nil
  /\ sessions' = [sessions EXCEPT ![k] = after]
  /\ last' = [op |-> op, key |-> k, arg |-> arg, stored |-> sessions[k], at |-> now]
  /\ steps' = steps + 1
  /\ UNCHANGED nextSessionId
  /\ SessFrame

SessAddMessage(k, e) ==
  SessCall(k, "addMessage", e, addMessage(config, sessions[k], e.role, e.content, now))

SessClearHistory(k) == SessCall(k, "clearHistory", Nil, clearHistory(sessions[k], now))

SessSetCustomPrompt(k) ==
  SessCall(k, "setCustomPrompt", <<"custom prompt">>,
           setCustomPrompt(sessions[k], <<"custom prompt">>, now))

SessSetModelOverride(k) ==
  SessCall(k, "setModelOverride", "sonar", setModelOverride(sessions[k], "sonar", now))

\* the 60 s timer of the constructor fires
SessCleanup ==
  /\ steps < MaxSessSteps
  /\ sessions' = cleanupExpiredSessions(config, sessions, now)
  /\ last' = [op |-> "cleanupExpiredSessions", at |-> now]
  /\ steps' = steps + 1
  /\ UNCHANGED nextSessionId
  /\ SessFrame

Tick ==
  /\ now < MaxTicks * TickMs
  /\ now' = now + TickMs
  /\ UNCHANGED <<redis, held, procs, config, sessions, nextSessionId, limiter, registry, persisted, chat,
                 last, lastOf, steps>>

NextSession ==
  \/ \E k \in SessKeys : SessGetOrCreate(k)
  \/ \E k \in SessKeys, e \in SessEntries : SessAddMessage(k, e)
  \/ \E k \in SessKeys : SessClearHistory(k)
  \/ \E k \in SessKeys : SessSetCustomPrompt(k)
  \/ \E k \in SessKeys : SessSetModelOverride(k)
  \/ SessCleanup
  \/ Tick

SpecSession == InitSession /\ [][NextSession]_vars

\* the last n entries of a sequence
LastN(seq, n) == SubSeq(seq, Len(seq) - Min(n, Len(seq)) + 1, Len(seq))

\* C4: after every addMessage, for every configured maxConversationHistory (0
\* included), the history is no longer than the maximum and holds the most
\* recently appended entries in their order.
C4_HistoryBounded ==
  last.op = "addMessage" =>
    LET appended == Append(last.stored.conversationHistory, last.arg)
        history == sessions[last.key].conversationHistory
    IN /\ Len(history) <= config.maxConversationHistory
       /\ history = LastN(appended, config.maxConversationHistory)

\* the same statement for a configured maximum of at least 1
C4_HistoryBoundedPositive ==
  (last.op = "addMessage" /\ config.maxConversationHistory >= 1) =>
    LET history == sessions[last.key].conversationHistory
    IN /\ Len(history) <= config.maxConversationHistory
       /\ history = LastN(Append(last.stored.conversationHistory, last.arg),
                          config.maxConversationHistory)

\* C5: getOrCreateSession never returns a stale session.  A stored session idle
\* for strictly more than sessionTimeoutSeconds is replaced by a fresh one (new
\* id, empty history, no overrides), which is stored and returned; otherwise the
\* stored session is returned with lastActivityAt set to now.
C5_NeverStale ==
  last.op = "getOrCreateSession" =>
    LET st == last.stored
        r == last.returned
        stale == st # Nil /\ last.at - st.lastActivityAt > config.sessionTimeoutSeconds * 1000
    IN /\ sessions[last.key] = r
       /\ r.lastActivityAt = last.at
       /\ stale =>
            /\ r.sessionId # st.sessionId
            /\ \A k \in Keys \ {last.key} :
                 sessions[k] # Nil => sessions[k].sessionId # r.sessionId
            /\ r.conversationHistory = <<>>
            /\ r.customSystemPrompt = None
            /\ r.modelOverride = None
            /\ r.temperatureOverride = None
            /\ r.createdAt = last.at
       /\ (st # Nil /\ ~stale) => r = [st EXCEPT !.lastActivityAt = last.at]

C5_WitnessStale ==
  /\ last.op = "getOrCreateSession"
  /\ last.stored # Nil
  /\ last.at - last.stored.lastActivityAt > config.sessionTimeoutSeconds * 1000
  /\ last.stored.conversationHistory # <<>>
  /\ last.stored.customSystemPrompt # None

(***************************************************************************)
(* Specification SpecRate: checkRateLimit called directly, as time passes  *)
(***************************************************************************)
MaxQuota == 2        \* largest configured rateLimitRequests
MaxWindow == 2       \* largest configured rateLimitWindowSeconds
MaxRateSteps == 4    \* calls of checkRateLimit in one behaviour

RateKeys == {getSessionKey("telegram", "u1"), getSessionKey("whatsapp", "u1")}

InitRate ==
  \E n \in 1..MaxQuota, w \in 1..MaxWindow :
    /\ Constructed([DefaultConfig EXCEPT !.rateLimitRequests = n,
                                         !.rateLimitWindowSeconds = w], Nil)

\* last.log: per key, the time and the result of every call made so far
RateLog == IF last.op = "checkRateLimit" THEN last.log ELSE [k \in Keys |-> <<>>]

RateCheck(k) ==
  /\ steps < MaxRateSteps
  /\ LET res == checkRateLimit(config, limiter, k[1], k[3], now)
     IN /\ limiter' = res.limiter
        /\ last' = [op |-> "checkRateLimit", key |-> k, thrown |-> res.thrown,
                    remaining |-> res.remaining, at |-> now,
                    log |-> [RateLog EXCEPT ![k] =
                               Append(@, [at |-> now, thrown |-> res.thrown])]]
  /\ steps' = steps + 1
  /\ UNCHANGED <<redis, held, procs, config, now, sessions, nextSessionId, registry, persisted, chat, lastOf>>

NextRate ==
  \/ \E k \in RateKeys : RateCheck(k)
  \/ Tick

SpecRate == InitRate /\ [][NextRate]_vars

\* start of the window the i-th call of a log falls into
RECURSIVE WindowStart(_, _)
WindowStart(log, i) ==
  IF i = 1 THEN log[1].at
  ELSE LET ws == WindowStart(log, i - 1)
       IN IF log[i].at >= ws + config.rateLimitWindowSeconds * 1000 THEN log[i].at ELSE ws

\* how many calls of the log, up to the i-th, fall into the window of the i-th
PositionInWindow(log, i) ==
  Cardinality({j \in 1..i : WindowStart(log, j) = WindowStart(log, i)})

\* C6: per key, the first N calls of a window succeed and the next ones in that
\* window fail with RATE_LIMITED (429) and the wait in whole seconds; once the
\* window has elapsed the calls succeed again.
C6_RateLimit ==
  \A k \in Keys : \A i \in 1..Len(RateLog[k]) :
    LET log == RateLog[k]
        windowEnd == WindowStart(log, i) + config.rateLimitWindowSeconds * 1000
    IN IF PositionInWindow(log, i) <= config.rateLimitRequests
         THEN log[i].thrown = Nil
         ELSE log[i].thrown =
                AppError("RATE_LIMITED",
                         <<"Rate limit exceeded. Please try again in ",
                           ToString((windowEnd - log[i].at + 999) \div 1000), " seconds.">>,
                         429)

C6_Witness ==
  \E k \in Keys :
    LET n == config.rateLimitRequests
    IN /\ Len(RateLog[k]) = n + 2
       /\ RateLog[k][n].thrown = Nil
       /\ RateLog[k][n + 1].thrown # Nil
       /\ RateLog[k][n + 2].thrown = Nil
       /\ \E k2 \in Keys \ {k} : RateLog[k2] = <<>>

(***************************************************************************)
(* Platform adapters: the guard of handleMessage and normalizeMessage      *)
(***************************************************************************)
\* handleMessage goes on to normalizeMessage and processMessage: Telegram
\* returns on a message without text, WhatsApp on a blank one
AdapterAccepts(platform, text) ==
  IF platform = "telegram" THEN text # <<>>
  ELSE text # <<>> /\ StrLen(Trim(text)) # 0

\* command and commandArgs are meaningful only when isCommand
normalizeMessage(platform, userId, text) ==
  LET isCommand == text # <<>> /\ Head(text) = "/"
      parts == IF isCommand THEN Split(Tail(text)) ELSE <<>>
      command == IF ~isCommand THEN None
                 ELSE IF platform = "telegram" THEN Some(ToLowerCase(BeforeAt(parts[1])))
                 ELSE Some(ToLowerCase(parts[1]))
      commandArgs == IF isCommand THEN Tail(parts) ELSE <<>>
  IN [platform |-> platform,
      userId |-> userId,
      content |-> IF isCommand THEN Join(commandArgs) ELSE text,
      isCommand |-> isCommand,
      command |-> command,
      commandArgs |-> commandArgs]

(***************************************************************************)
(* SecurityService.getRateLimitStatus                                      *)
(***************************************************************************)
getRateLimitStatus(cfg, lim, platform, userId, t) ==
  LET result == RateLimiterGet(NewRateLimiter(cfg).points,
                               lim[getSessionKey(platform, userId)], t)
  IN IF result = Nil
       THEN [used |-> 0, remaining |-> cfg.rateLimitRequests, total |-> cfg.rateLimitRequests]
       ELSE [used |-> cfg.rateLimitRequests - result.remainingPoints,
             remaining |-> result.remainingPoints,
             total |-> cfg.rateLimitRequests]

(***************************************************************************)
(* MessageHandler.  A MessageResponse carries error = FALSE where the code *)
(* leaves the field out, and citations = None likewise.                    *)
(***************************************************************************)
Response(content, citations, error) ==
  [content |-> content, citations |-> citations, error |-> error]

\* an error that is no AppError, such as the one a rejected storage call raises
UnexpectedError == [name |-> "Error", message |-> <<"connection is closed">>]
IsAppError(error) == "code" \in DOMAIN error

\* the model or preset name a string spells (an argument holds no blank, and
\* the arguments sent here are single words)
AsName(s) == IF Len(s) = 1 THEN s[1] ELSE "<other>"

\* performSecurityChecks with the rate limit consumed before the authorization
performSecurityChecksRateFirst(cfg, lim, message, t) ==
  LET rate == checkRateLimit(cfg, lim, message.platform, message.userId, t)
      auth == checkAuthorization(cfg, message.userId)
      valid == validateInput(message.content)
  IN IF rate.thrown # Nil
       THEN [thrown |-> rate.thrown, limiter |-> rate.limiter,
             content |-> message.content, gate |-> "rateLimit"]
     ELSE IF auth # Nil
       THEN [thrown |-> auth, limiter |-> rate.limiter, content |-> message.content,
             gate |-> "authorization"]
     ELSE IF valid.thrown # Nil
       THEN [thrown |-> valid.thrown, limiter |-> rate.limiter,
             content |-> message.content, gate |-> "validation"]
     ELSE [thrown |-> Nil, limiter |-> rate.limiter, content |-> valid.content,
           gate |-> "passed"]

\* performSecurityChecks validating the input before it consumes a point
performSecurityChecksValidateFirst(cfg, lim, message, t) ==
  LET auth == checkAuthorization(cfg, message.userId)
      rate == checkRateLimit(cfg, lim, message.platform, message.userId, t)
      valid == validateInput(message.content)
  IN IF auth # Nil
       THEN [thrown |-> auth, limiter |-> lim, content |-> message.content,
             gate |-> "authorization"]
     ELSE IF valid.thrown # Nil
       THEN [thrown |-> valid.thrown, limiter |-> lim,
             content |-> message.content, gate |-> "validation"]
     ELSE IF rate.thrown # Nil
       THEN [thrown |-> rate.thrown, limiter |-> rate.limiter,
             content |-> message.content, gate |-> "rateLimit"]
     ELSE [thrown |-> Nil, limiter |-> rate.limiter, content |-> valid.content,
           gate |-> "passed"]

\* the error thrown (or Nil), the limiter afterwards, the content of the message
\* afterwards, and the check that threw
performSecurityChecks(cfg, lim, message, t) ==
  LET auth == checkAuthorization(cfg, message.userId)
      rate == checkRateLimit(cfg, lim, message.platform, message.userId, t)
      valid == validateInput(message.content)
  IN IF auth # Nil
       THEN [thrown |-> auth, limiter |-> lim, content |-> message.content,
             gate |-> "authorization"]
     ELSE IF rate.thrown # Nil
       THEN [thrown |-> rate.thrown, limiter |-> rate.limiter,
             content |-> message.content, gate |-> "rateLimit"]
     ELSE IF valid.thrown # Nil
       THEN [thrown |-> valid.thrown, limiter |-> rate.limiter,
             content |-> message.content, gate |-> "validation"]
     ELSE [thrown |-> Nil, limiter |-> rate.limiter, content |-> valid.content,
           gate |-> "passed"]

\* handleError with no error flag on the default branch of the switch
handleErrorDefaultNoFlag(error) ==
  IF IsAppError(error)
    THEN CASE error.code = "RATE_LIMITED" ->
                Response(<<"[hourglass] ">> \o error.message, None, TRUE)
           [] error.code = "NOT_WHITELISTED" ->
                Response(<<"[lock] ">> \o error.message, None, TRUE)
           [] error.code = "API_RATE_LIMITED" ->
                Response(<<"The AI service is currently busy. Please try again in a moment.">>,
                         None, TRUE)
           [] error.code = "API_TIMEOUT" ->
                Response(<<"The request took too long. Please try again with a shorter message.">>,
                         None, TRUE)
           [] OTHER -> Response(<<"Error: ">> \o error.message, None, FALSE)
    ELSE Response(<<"An unexpected error occurred. Please try again later.">>, None, TRUE)

handleError(error) ==
  IF IsAppError(error)
    THEN CASE error.code = "RATE_LIMITED" ->
                Response(<<"[hourglass] ">> \o error.message, None, TRUE)
           [] error.code = "NOT_WHITELISTED" ->
                Response(<<"[lock] ">> \o error.message, None, TRUE)
           [] error.code = "API_RATE_LIMITED" ->
                Response(<<"The AI service is currently busy. Please try again in a moment.">>,
                         None, TRUE)
           [] error.code = "API_TIMEOUT" ->
                Response(<<"The request took too long. Please try again with a shorter message.">>,
                         None, TRUE)
           [] OTHER -> Response(<<"Error: ">> \o error.message, None, TRUE)
    ELSE Response(<<"An unexpected error occurred. Please try again later.">>, None, TRUE)

\* getPresetList: one line per preset (the order of the lines is not modelled)
RECURSIVE PresetLines(_, _)
PresetLines(presets, keys) ==
  IF keys = {} THEN <<>>
  ELSE LET k == CHOOSE x \in keys : TRUE
       IN <<k, ": ", presets[k].name, " - ">> \o presets[k].description \o <<"\n">>
          \o PresetLines(presets, keys \ {k})

getPresetList(reg) == PresetLines(reg.presets, DOMAIN reg.presets)

getConfigSummary(reg) ==
  <<"AI Configuration: Model: ", reg.defaultModel, " Temperature: ",
    ToString(reg.defaultTemperature), " Max Tokens: ", ToString(reg.defaultMaxTokens),
    " Presets: ", ToString(Cardinality(DOMAIN reg.presets)), " System Prompt Preview: ">>
  \o Substring(reg.globalSystemPrompt, 200)
  \o (IF StrLen(reg.globalSystemPrompt) > 200 THEN <<"...">> ELSE <<>>)

AdminOnly == Response(<<"This command requires administrator privileges.">>, None, TRUE)

\* Every handler gives the session as it leaves it and the response it returns.
handleStartCommand(session) ==
  [session |-> session,
   response |->
     Response(<<"Welcome to AI Assistant! Available Commands: ...">>
              \o (IF isAdmin(session)
                    THEN <<"Admin Commands: ... Available Models: ...">> ELSE <<>>)
              \o <<"Just send me a message to start chatting!">>, None, FALSE)]

handleResetCommand(session, t) ==
  LET cleared == clearHistory(session, t)
  IN [session |-> updateSession([cleared EXCEPT !.customSystemPrompt = None,
                                                !.modelOverride = None,
                                                !.temperatureOverride = None], t),
      response |-> Response(<<"Conversation reset! Your conversation history has been cleared and settings restored to defaults.">>,
                            None, FALSE)]

handleSetPromptCommand(reg, session, args, t) ==
  LET prompt == Trim(Join(args))
      currentPrompt == IF TruthyStr(session.customSystemPrompt)
                         THEN Get(session.customSystemPrompt) ELSE reg.globalSystemPrompt
  IN IF ~isAdmin(session) THEN [session |-> session, response |-> AdminOnly]
     ELSE IF prompt = <<>>
       THEN [session |-> session,
             response |-> Response(<<"Current System Prompt: ">> \o currentPrompt
                                   \o <<" To set a new prompt, use: /setprompt Your new prompt here">>,
                                   None, FALSE)]
     ELSE IF prompt = <<"global">>
       THEN [session |-> session,
             response |-> Response(<<"Global System Prompt: ">> \o reg.globalSystemPrompt,
                                   None, FALSE)]
     ELSE IF prompt = <<"clear">>
       THEN [session |-> updateSession([session EXCEPT !.customSystemPrompt = None], t),
             response |-> Response(<<"Custom prompt cleared. Using global default.">>,
                                   None, FALSE)]
     ELSE [session |-> setCustomPrompt(session, prompt, t),
           response |-> Response(<<"Custom system prompt set! ">> \o prompt, None, FALSE)]

handleModelCommand(reg, session, args, t) ==
  LET modelArg == IF args = <<>> THEN None ELSE Some(ToLowerCase(args[1]))
      currentModel == IF TruthyName(session.modelOverride) THEN Get(session.modelOverride)
                      ELSE reg.defaultModel
  IN IF ~TruthyStr(modelArg)
       THEN [session |-> session,
             response |-> Response(<<"Current Model: ", currentModel,
                                     " Available Models: ... To change model: /model [model-name]">>,
                                   None, FALSE)]
     ELSE IF AsName(Get(modelArg)) \notin AvailableModels
       THEN [session |-> session,
             response |-> Response(<<"Unknown model: ">> \o Get(modelArg)
                                   \o <<" Available: ...">>, None, TRUE)]
     ELSE [session |-> setModelOverride(session, AsName(Get(modelArg)), t),
           response |-> Response(<<"Model changed to ">> \o Get(modelArg), None, FALSE)]

\* handlePresetCommand with the temperature applied only when it is truthy
handlePresetCommandTruthyTemperature(reg, session, args, t) ==
  LET presetArg == IF args = <<>> THEN None ELSE Some(ToLowerCase(args[1]))
      key == AsName(Get(presetArg))
      preset == reg.presets[key]
      s1 == [session EXCEPT !.customSystemPrompt = Some(preset.prompt)]
      s2 == IF TruthyName(preset.model) THEN [s1 EXCEPT !.modelOverride = preset.model]
            ELSE s1
      s3 == IF preset.temperature # None /\ Get(preset.temperature) # 0
              THEN [s2 EXCEPT !.temperatureOverride = preset.temperature]
            ELSE s2
  IN IF ~TruthyStr(presetArg)
       THEN [session |-> session,
             response |-> Response(<<"Available Presets: ">> \o getPresetList(reg)
                                   \o <<" To use a preset: /preset [name]">>, None, FALSE)]
     ELSE IF key \notin DOMAIN reg.presets
       THEN [session |-> session,
             response |-> Response(<<"Unknown preset: ">> \o Get(presetArg)
                                   \o <<" Use /preset to see available presets.">>,
                                   None, TRUE)]
     ELSE [session |-> updateSession(s3, t),
           response |-> Response(<<"Preset Applied: ", preset.name>> \o preset.description
                                 \o (IF TruthyName(preset.model)
                                       THEN <<"Model: ", Get(preset.model)>> ELSE <<>>)
                                 \o (IF preset.temperature # None
                                       THEN <<"Temperature: ",
                                              ToString(Get(preset.temperature))>>
                                       ELSE <<>>),
                                 None, FALSE)]

\* handlePresetCommand with the model and the temperature of the preset assigned
\* whether the preset defines them or not
handlePresetCommandReplaceAll(reg, session, args, t) ==
  LET presetArg == IF args = <<>> THEN None ELSE Some(ToLowerCase(args[1]))
      key == AsName(Get(presetArg))
      preset == reg.presets[key]
      s3 == [session EXCEPT !.customSystemPrompt = Some(preset.prompt),
                            !.modelOverride = preset.model,
                            !.temperatureOverride = preset.temperature]
  IN IF ~TruthyStr(presetArg)
       THEN [session |-> session,
             response |-> Response(<<"Available Presets: ">> \o getPresetList(reg)
                                   \o <<" To use a preset: /preset [name]">>, None, FALSE)]
     ELSE IF key \notin DOMAIN reg.presets
       THEN [session |-> session,
             response |-> Response(<<"Unknown preset: ">> \o Get(presetArg)
                                   \o <<" Use /preset to see available presets.">>,
                                   None, TRUE)]
     ELSE [session |-> updateSession(s3, t),
           response |-> Response(<<"Preset Applied: ", preset.name>> \o preset.description,
                                 None, FALSE)]

handlePresetCommand(reg, session, args, t) ==
  LET presetArg == IF args = <<>> THEN None ELSE Some(ToLowerCase(args[1]))
      key == AsName(Get(presetArg))
      preset == reg.presets[key]
      s1 == [session EXCEPT !.customSystemPrompt = Some(preset.prompt)]
      s2 == IF TruthyName(preset.model) THEN [s1 EXCEPT !.modelOverride = preset.model]
            ELSE s1
      s3 == IF preset.temperature # None
              THEN [s2 EXCEPT !.temperatureOverride = preset.temperature]
            ELSE s2
  IN IF ~TruthyStr(presetArg)
       THEN [session |-> session,
             response |-> Response(<<"Available Presets: ">> \o getPresetList(reg)
                                   \o <<" To use a preset: /preset [name]">>, None, FALSE)]
     ELSE IF key \notin DOMAIN reg.presets
       THEN [session |-> session,
             response |-> Response(<<"Unknown preset: ">> \o Get(presetArg)
                                   \o <<" Use /preset to see available presets.">>,
                                   None, TRUE)]
     ELSE [session |-> updateSession(s3, t),
           response |-> Response(<<"Preset Applied: ", preset.name>> \o preset.description
                                 \o (IF TruthyName(preset.model)
                                       THEN <<"Model: ", Get(preset.model)>> ELSE <<>>)
                                 \o (IF preset.temperature # None
                                       THEN <<"Temperature: ",
                                              ToString(Get(preset.temperature))>>
                                       ELSE <<>>),
                                 None, FALSE)]

handleStatusCommand(cfg, reg, lim, session, platform, t) ==
  LET rateStatus == getRateLimitStatus(cfg, lim, platform, session.userId, t)
      currentModel == IF TruthyName(session.modelOverride) THEN Get(session.modelOverride)
                      ELSE reg.defaultModel
  IN [session |-> session,
      response |->
        Response(<<"Session Status Platform: ", platform, " Role: ", session.role,
                   " Model: ", currentModel, " Custom Prompt: ",
                   IF TruthyStr(session.customSystemPrompt) THEN "Yes" ELSE "No",
                   " Conversation History: ", ToString(Len(session.conversationHistory)),
                   " messages Rate Limit: ", ToString(rateStatus.remaining), "/",
                   ToString(rateStatus.total), " remaining Session created: ",
                   ToString(session.createdAt)>>, None, FALSE)]

handleConfigCommand(reg, session) ==
  [session |-> session,
   response |-> IF ~isAdmin(session) THEN AdminOnly
                ELSE Response(getConfigSummary(reg), None, FALSE)]

\* the handler the switch of handleCommand selects for a command name
HandlerOf(command) ==
  CASE command \in {<<"start">>, <<"help">>} -> "start"
    [] command = <<"reset">> -> "reset"
    [] command = <<"setprompt">> -> "setprompt"
    [] command = <<"model">> -> "model"
    [] command = <<"preset">> -> "preset"
    [] command = <<"status">> -> "status"
    [] command = <<"config">> -> "config"
    [] OTHER -> "unknown"

\* the session and the response of the handler, and which handler ran
handleCommand(cfg, reg, lim, session, message, t) ==
  LET command == ToLowerCase(Get(message.command))
      args == message.commandArgs
      handler == HandlerOf(command)
      r == CASE handler = "start" -> handleStartCommand(session)
             [] handler = "reset" -> handleResetCommand(session, t)
             [] handler = "setprompt" -> handleSetPromptCommand(reg, session, args, t)
             [] handler = "model" -> handleModelCommand(reg, session, args, t)
             [] handler = "preset" -> handlePresetCommand(reg, session, args, t)
             [] handler = "status" ->
                  handleStatusCommand(cfg, reg, lim, session, message.platform, t)
             [] handler = "config" -> handleConfigCommand(reg, session)
             [] OTHER ->
                  [session |-> session,
                   response |-> Response(<<"Unknown command: /">> \o command
                                         \o <<" Use /help to see available commands.">>,
                                         None, FALSE)]
  IN [session |-> r.session, response |-> r.response, handler |-> handler]

RECURSIVE SumSeq(_)
SumSeq(q) == IF q = <<>> THEN 0 ELSE Head(q) + SumSeq(Tail(q))

\* citations.map((url, i) => `${i + 1}. ${url}`).join('\n')
RECURSIVE CitationLines(_, _)
CitationLines(urls, i) ==
  IF i > Len(urls) THEN <<>>
  ELSE <<ToString(i), ". ", urls[i]>> \o (IF i < Len(urls) THEN <<"\n">> ELSE <<>>)
       \o CitationLines(urls, i + 1)

\* processRegularMessage with the reply, warning banner and citation list
\* included, stored as the assistant entry
processRegularMessageStoresReply(cfg, reg, session, message, script, t) ==
  LET injectionCheck == checkPromptInjection(message.content)
      warningPrefix == IF injectionCheck.isSuspicious
                         THEN <<"[warning] ">> \o injectionCheck.warning \o <<"\n\n">>
                         ELSE <<>>
      s1 == addMessage(cfg, session, "user", message.content, t)
      baseSystemPrompt == IF TruthyStr(s1.customSystemPrompt)
                            THEN Get(s1.customSystemPrompt) ELSE reg.globalSystemPrompt
      model == IF TruthyName(s1.modelOverride) THEN s1.modelOverride
               ELSE Some(reg.defaultModel)
      temperature == IF s1.temperatureOverride # None THEN s1.temperatureOverride
                     ELSE Some(reg.defaultTemperature)
      call == ChatLoop(cfg,
                       ChatStart(cfg, s1.conversationHistory,
                                 buildSecureSystemPrompt(baseSystemPrompt),
                                 [model |-> model, temperature |-> temperature,
                                  maxTokens |-> Some(reg.defaultMaxTokens)]),
                       script)
      t2 == t + SumSeq(call.sleeps)
      citations == call.result.citations
      citationsText == IF cfg.returnCitations /\ citations # None /\ Get(citations) # <<>>
                         THEN <<"\n\n[books] Sources:\n">> \o CitationLines(Get(citations), 1)
                         ELSE <<>>
      reply == warningPrefix \o validateOutput(call.result.content) \o citationsText
  IN IF call.pc = "thrown"
       THEN [session |-> s1, response |-> Nil, thrown |-> call.error, chat |-> call,
             now |-> t2]
       ELSE [session |-> addMessage(cfg, s1, "assistant", reply, t2),
             response |-> Response(reply, citations, FALSE),
             thrown |-> Nil, chat |-> call, now |-> t2]

\* The chat flow against the upstream outcomes of `script`.  It gives the session
\* as the flow leaves it, the response or the error thrown, the call of chat()
\* and the time at which the flow ends (chat() sleeps between its attempts).
processRegularMessage(cfg, reg, session, message, script, t) ==
  LET injectionCheck == checkPromptInjection(message.content)
      warningPrefix == IF injectionCheck.isSuspicious
                         THEN <<"[warning] ">> \o injectionCheck.warning \o <<"\n\n">>
                         ELSE <<>>
      s1 == addMessage(cfg, session, "user", message.content, t)
      baseSystemPrompt == IF TruthyStr(s1.customSystemPrompt)
                            THEN Get(s1.customSystemPrompt) ELSE reg.globalSystemPrompt
      secureSystemPrompt == buildSecureSystemPrompt(baseSystemPrompt)
      model == IF TruthyName(s1.modelOverride) THEN s1.modelOverride
               ELSE Some(reg.defaultModel)
      temperature == IF s1.temperatureOverride # None THEN s1.temperatureOverride
                     ELSE Some(reg.defaultTemperature)
      call == ChatLoop(cfg,
                       ChatStart(cfg, s1.conversationHistory, secureSystemPrompt,
                                 [model |-> model, temperature |-> temperature,
                                  maxTokens |-> Some(reg.defaultMaxTokens)]),
                       script)
      t2 == t + SumSeq(call.sleeps)
      responseContent == validateOutput(call.result.content)
      citations == call.result.citations
      citationsText == IF cfg.returnCitations /\ citations # None /\ Get(citations) # <<>>
                         THEN <<"\n\n[books] Sources:\n">> \o CitationLines(Get(citations), 1)
                         ELSE <<>>
  IN IF call.pc = "thrown"
       THEN [session |-> s1, response |-> Nil, thrown |-> call.error, chat |-> call,
             now |-> t2]
       ELSE [session |-> addMessage(cfg, s1, "assistant", responseContent, t2),
             response |-> Response(warningPrefix \o responseContent \o citationsText,
                                   citations, FALSE),
             thrown |-> Nil, chat |-> call, now |-> t2]

\* processMessage: the try block, and handleError for whatever it throws.
\* fault = "storage": the storage call of getOrCreateSession rejects (RedisStorage
\* awaits its client and catches nothing), which raises an error that is no AppError.
processMessage(cfg, reg, store, lim, id, message, script, fault, t) ==
  LET key == getSessionKey(message.platform, message.userId)
      got == getOrCreateSession(cfg, store[key], message.platform, message.userId, id, t)
      resolved == [store EXCEPT ![key] = got.session]
      nextId == IF got.created THEN id + 1 ELSE id
      checks == performSecurityChecks(cfg, lim, message, t)
      checked == [message EXCEPT !.content = checks.content]
      cmd == handleCommand(cfg, reg, checks.limiter, got.session, checked, t)
      reg1 == processRegularMessage(cfg, reg, got.session, checked, script, t)
  IN IF fault = "storage"
       THEN [sessions |-> store, limiter |-> lim, nextSessionId |-> id, chat |-> ChatIdle,
             now |-> t, thrown |-> UnexpectedError, gate |-> "none", handler |-> "none",
             created |-> FALSE, response |-> handleError(UnexpectedError)]
     ELSE IF checks.thrown # Nil
       THEN [sessions |-> resolved, limiter |-> checks.limiter, nextSessionId |-> nextId,
             chat |-> ChatIdle, now |-> t, thrown |-> checks.thrown, gate |-> checks.gate,
             handler |-> "none", created |-> got.created,
             response |-> handleError(checks.thrown)]
     ELSE IF message.isCommand /\ TruthyStr(message.command)
       THEN [sessions |-> [store EXCEPT ![key] = cmd.session], limiter |-> checks.limiter,
             nextSessionId |-> nextId, chat |-> ChatIdle, now |-> t, thrown |-> Nil,
             gate |-> "passed", handler |-> cmd.handler, created |-> got.created,
             response |-> cmd.response]
     ELSE [sessions |-> [store EXCEPT ![key] = reg1.session], limiter |-> checks.limiter,
           nextSessionId |-> nextId, chat |-> reg1.chat, now |-> reg1.now,
           thrown |-> reg1.thrown, gate |-> "passed", handler |-> "chat",
           created |-> got.created,
           response |-> IF reg1.thrown # Nil THEN handleError(reg1.thrown)
                        ELSE reg1.response]

(***************************************************************************)
(* Specification Spec: messages arrive at the adapters and are processed   *)
(* one after the other, while time passes                                  *)
(***************************************************************************)
MaxSteps == 2        \* messages processed in one behaviour

Senders == {<<"telegram", "u1">>, <<"whatsapp", "a1">>}

\* the texts of the messages sent
RegularTexts == {<<"hello">>, <<"jailbreak">>, <<SP>>}
\* texts at the limit of validateInput and one character beyond it
LongTexts == {<<"<4000 chars>">>, <<"<4001 chars>">>}
CommandTexts ==
  {<<"/", "reset">>, <<"/", "reset", SP, "now">>, <<"/", "RESET", "@", "bot", SP, "now">>,
   <<"/", "preset", SP, "coder">>, <<"/", "preset", SP, "zero">>, <<"/", "preset">>,
   <<"/", "model", SP, "sonar">>, <<"/", "help">>, <<"/", "status">>,
   <<"/", "setprompt", SP, "p1">>, <<"/", "config", SP, "now">>, <<"/", "foo", SP, "now">>}

\* what the upstream answers to the requests of one call of chat()
OkScript == <<OkOutcome(<<"Paris", "[1]">>, None)>>
Scripts ==
  {OkScript,
   <<AxiosErr(429, "ERR_BAD_REQUEST", <<>>)>> \o OkScript,
   <<AxiosErr(401, "ERR_BAD_REQUEST", <<>>)>>,
   <<AxiosErr(0, "ETIMEDOUT", <<>>), AxiosErr(0, "ETIMEDOUT", <<>>),
     AxiosErr(0, "ETIMEDOUT", <<>>)>>,
   <<OtherErr, OtherErr, OtherErr>>}

\* answers at the limits of validateOutput: empty, blank, of 8000 and of 8001 characters
OutputScripts ==
  {<<OkOutcome(<<>>, None)>>, <<OkOutcome(<<SP>>, None)>>,
   <<OkOutcome(<<"<8000 chars>">>, None)>>, <<OkOutcome(<<"<8001 chars>">>, None)>>}

\* A delivery is the text of a message, what the upstream would answer to it
\* (used only when the message reaches chat(), which no command does) and
\* whether the storage fails while the message is processed.
Delivery(text, script, fault) == [text |-> text, script |-> script, fault |-> fault]
Deliveries ==
  {Delivery(x, sc, "none") : x \in RegularTexts, sc \in Scripts}
  \cup {Delivery(x, OkScript, "none") : x \in CommandTexts \cup LongTexts}
  \cup {Delivery(<<"hello">>, sc, "none") : sc \in OutputScripts}
  \cup {Delivery(x, OkScript, "storage") : x \in {<<"hello">>, <<"/", "reset", SP, "now">>}}

\* WHITELIST_ENABLED and WHITELISTED_USER_IDS of the environment
AllowLists ==
  {[enabled |-> FALSE, userIds |-> {}], [enabled |-> TRUE, userIds |-> {}],
   [enabled |-> TRUE, userIds |-> {"u1"}]}

Init ==
  \E w \in AllowLists, n \in 1..MaxQuota, d \in StartDocuments :
    Constructed([DefaultConfig EXCEPT !.whitelistEnabled = w.enabled,
                                      !.whitelistedUserIds = w.userIds,
                                      !.adminUserIds = {"a1"},
                                      !.rateLimitRequests = n,
                                      !.rateLimitWindowSeconds = 1,
                                      !.sessionTimeoutSeconds = 1], d)

\* the preset a /preset command names, when the registry holds it
NamedPreset(message) ==
  IF /\ message.isCommand
     /\ message.command = Some(<<"preset">>)
     /\ message.commandArgs # <<>>
     /\ AsName(ToLowerCase(message.commandArgs[1])) \in DOMAIN registry.presets
    THEN registry.presets[AsName(ToLowerCase(message.commandArgs[1]))]
    ELSE Nil

\* what processing `message` changed and returned, given as r
Processing(key, message, fault, r) ==
  /\ r.chat.pc # "loop"
  /\ sessions' = r.sessions
  /\ limiter' = r.limiter
  /\ nextSessionId' = r.nextSessionId
  /\ chat' = r.chat
  /\ now' = r.now
  /\ last' = [op |-> "processMessage", key |-> key, msg |-> message, fault |-> fault,
              stored |-> sessions[key], limiterBefore |-> limiter[key], at |-> now,
              created |-> r.created, gate |-> r.gate, handler |-> r.handler,
              thrown |-> r.thrown, response |-> r.response, prev |-> lastOf[key]]
  /\ lastOf' = [lastOf EXCEPT ![key] =
                  [op |-> "processMessage", handler |-> r.handler,
                   applied |-> IF r.handler = "preset" THEN NamedPreset(message)
                               ELSE Nil]]

\* An adapter receives a message: handleMessage, normalizeMessage and
\* processMessage.  The script is what the upstream would answer; it is used
\* only when the message reaches chat().
HandleMessage(platform, userId, text, script, fault) ==
  /\ steps < MaxSteps
  /\ AdapterAccepts(platform, text)
  /\ Processing(getSessionKey(platform, userId),
                normalizeMessage(platform, userId, text),
                fault,
                processMessage(config, registry, sessions, limiter, nextSessionId,
                               normalizeMessage(platform, userId, text), script, fault,
                               now))
  /\ steps' = steps + 1
  /\ UNCHANGED <<redis, held, procs, config, registry, persisted>>

\* validateApiKey: a chat() call with a fixed history and a fixed system prompt,
\* answered by true when it returns and by false when it throws
validateApiKey(cfg, script) ==
  ChatLoop(cfg,
           ChatStart(cfg, <<Entry("user", <<"Hi">>)>>, <<"You are a test assistant.">>,
                     [model |-> None, temperature |-> None, maxTokens |-> Some(10)]),
           script)

\* the startup check and POST /admin/validate-api-key
ValidateApiKey(script, c) ==
  /\ steps < MaxSteps
  /\ c.pc # "loop"
  /\ chat' = c
  /\ now' = now + SumSeq(c.sleeps)
  /\ last' = [op |-> "validateApiKey", returned |-> (c.pc = "returned")]
  /\ steps' = steps + 1
  /\ UNCHANGED <<redis, held, procs, config, sessions, nextSessionId, limiter, registry, persisted, lastOf>>

Next ==
  \/ \E sender \in Senders, d \in Deliveries :
       HandleMessage(sender[1], sender[2], d.text, d.script, d.fault)
  \/ \E script \in Scripts : ValidateApiKey(script, validateApiKey(config, script))
  \/ Tick

Spec == Init /\ [][Next]_vars

Processed == last.op = "processMessage" /\ last.fault = "none"

\* what the three checks of the Security Gate decide, from the configuration,
\* the limiter record of the sender before the message and the message as the
\* adapter normalized it
Unauthorized ==
  /\ config.whitelistEnabled
  /\ last.msg.userId \notin (config.whitelistedUserIds \cup config.adminUserIds)
RateLimited ==
  /\ last.limiterBefore # Nil
  /\ last.limiterBefore.expiresAt > last.at
  /\ last.limiterBefore.value >= config.rateLimitRequests
InvalidInput ==
  \/ StrLen(last.msg.content) > 4000
  \/ \A i \in 1..Len(last.msg.content) : last.msg.content[i] = SP
ExpectedGateError ==
  IF Unauthorized THEN "NOT_WHITELISTED"
  ELSE IF RateLimited THEN "RATE_LIMITED"
  ELSE IF InvalidInput THEN "INVALID_INPUT"
  ELSE "none"

\* the history of the session resolved for the message, before anything is
\* appended to it
ResolvedHistory == IF last.created THEN <<>> ELSE last.stored.conversationHistory

\* C1: the Security Gate checks authorization, then the rate limit, then the
\* input, and the first failing check decides the error; an unauthorized
\* message consumes no rate point.  When a check fails no command handler runs,
\* nothing is appended to the conversation history and no upstream request is
\* issued.
C1_GateOrder ==
  Processed =>
    /\ (ExpectedGateError = "none") = (last.gate = "passed")
    /\ Unauthorized => limiter[last.key] = last.limiterBefore
    /\ ExpectedGateError # "none" =>
         /\ last.thrown # Nil
         /\ last.thrown.code = ExpectedGateError
         /\ last.handler = "none"
         /\ sessions[last.key].conversationHistory = ResolvedHistory
         /\ chat = ChatIdle

C1_Witness ==
  /\ Processed
  /\ ~Unauthorized /\ RateLimited /\ InvalidInput
  /\ last.thrown.code = "RATE_LIMITED"
  /\ ResolvedHistory # <<>>

\* C2: whatever fails while a message is processed (an AppError of the checks,
\* of a handler or of the upstream call, or an unexpected error), processMessage
\* returns a response with a non-empty content and error = true.
C2_FailuresAnswered ==
  last.op = "processMessage" =>
    /\ last.response # Nil
    /\ last.response.content # <<>>
    /\ last.thrown # Nil => last.response.error = TRUE

C2_Witness ==
  /\ last.op = "processMessage"
  /\ last.fault = "storage"
  /\ ~IsAppError(last.thrown)
  /\ last.response.error = TRUE
  /\ last.stored # Nil

\* C3: every command an adapter normalized, sent by an authorized user who is
\* not rate limited, is dispatched to the handler of its command name, the
\* commands sent with no arguments included.
C3_CommandsDispatched ==
  (/\ Processed
   /\ last.msg.isCommand /\ TruthyStr(last.msg.command)
   /\ ~Unauthorized /\ ~RateLimited)
  => last.handler = HandlerOf(Get(last.msg.command))

\* the same for the commands sent with an argument that is not blank
DispatchedWhenArgumentsGiven ==
  (/\ Processed
   /\ last.msg.isCommand /\ TruthyStr(last.msg.command)
   /\ ~Unauthorized /\ ~RateLimited /\ ~InvalidInput)
  => last.handler = HandlerOf(Get(last.msg.command))

\* C9: after a /reset command is processed, the session stored under the key of
\* the user has an empty history and no custom prompt, model override or
\* temperature override, and the session id and role it had before.
C9_ResetClears ==
  (/\ Processed
   /\ last.msg.isCommand /\ last.msg.command = Some(<<"reset">>)
   /\ ~Unauthorized /\ ~RateLimited)
  => LET session == sessions[last.key]
     IN /\ session.conversationHistory = <<>>
        /\ session.customSystemPrompt = None
        /\ session.modelOverride = None
        /\ session.temperatureOverride = None
        /\ ~last.created => /\ session.sessionId = last.stored.sessionId
                            /\ session.role = last.stored.role

\* the same once handleResetCommand has run
ResetHandlerClears ==
  (Processed /\ last.handler = "reset")
  => LET session == sessions[last.key]
     IN /\ session.conversationHistory = <<>>
        /\ session.customSystemPrompt = None
        /\ session.modelOverride = None
        /\ session.temperatureOverride = None
        /\ ~last.created => /\ session.sessionId = last.stored.sessionId
                            /\ session.role = last.stored.role

\* the previous message of the sender applied a preset with a model and a
\* temperature, and this one reached chat()
ChatAfterPreset ==
  /\ Processed
  /\ last.handler = "chat"
  /\ last.prev.op = "processMessage"
  /\ last.prev.applied # Nil
  /\ last.prev.applied.model # None
  /\ last.prev.applied.temperature # None

PresetInRequest(preset) ==
  /\ chat.request.model = Get(preset.model)
  /\ chat.request.temperature = Get(preset.temperature)
  /\ chat.request.messages[1] =
       [role |-> "system", content |-> SecurityInstructions \o preset.prompt \o <<"\n">>]

PresetInSession ==
  (Processed /\ last.handler = "preset" /\ lastOf[last.key].applied # Nil)
  => sessions[last.key].customSystemPrompt = Some(lastOf[last.key].applied.prompt)

\* C10: after '/preset <key>' with a preset that defines a model and a
\* temperature, the custom prompt of the session is the prompt of the preset,
\* and the next regular message of the user calls the upstream with the model,
\* the temperature and a system prompt built from the prompt of the preset.
C10_PresetApplies ==
  /\ PresetInSession
  /\ ChatAfterPreset => PresetInRequest(last.prev.applied)

\* C10 amended: the same, for a next regular message that is processed in the
\* session the preset was applied to (the session did not expire in between).
C10_PresetAppliesInSession ==
  /\ PresetInSession
  /\ (ChatAfterPreset /\ ~last.created) => PresetInRequest(last.prev.applied)

C10_Witness ==
  /\ ChatAfterPreset
  /\ ~last.created
  /\ last.prev.applied.temperature = Some(0)
  /\ chat.pc = "returned"
  /\ Len(chat.requests) = 2

\* the prompt a chat turn is configured with: the custom prompt of the session,
\* the global prompt of the registry without one
ConfiguredPrompt(session) ==
  IF TruthyStr(session.customSystemPrompt) THEN Get(session.customSystemPrompt)
  ELSE registry.globalSystemPrompt

\* the system message of the request is the security block followed by the prompt
Wrapped(request, basePrompt) ==
  request.messages[1] =
    [role |-> "system", content |-> SecurityInstructions \o basePrompt \o <<"\n">>]

ChatTurn == Processed /\ last.handler = "chat" /\ chat.requests # <<>>

\* C12: every request the program sends upstream carries as system prompt the
\* configured prompt prefixed by the security block, whether or not the
\* injection heuristic flagged the message.
\* (chat() posts the one request it built at each of its attempts.)
C12_EveryCallWrapped ==
  /\ ChatTurn => Wrapped(chat.request, ConfiguredPrompt(sessions[last.key]))
  /\ (last.op = "validateApiKey" /\ chat.requests # <<>>) =>
       Wrapped(chat.request, registry.globalSystemPrompt)

\* C12 as amended: every request of a chat turn carries the wrapped prompt, and
\* the requests of validateApiKey carry its fixed prompt alone.
C12_ChatTurnsWrapped ==
  /\ ChatTurn => Wrapped(chat.request, ConfiguredPrompt(sessions[last.key]))
  /\ (last.op = "validateApiKey" /\ chat.requests # <<>>) =>
       chat.request.messages[1] =
         [role |-> "system", content |-> <<"You are a test assistant.">>]

\* a flagged message of a session with a custom prompt, answered at the second request
C12_Witness ==
  /\ ChatTurn
  /\ checkPromptInjection(last.msg.content).isSuspicious
  /\ sessions[last.key].customSystemPrompt # None
  /\ Len(chat.requests) = 2
  /\ chat.pc = "returned"

\* a regular message that passed the Security Gate
RegularTurn == Processed /\ ~last.msg.isCommand /\ last.gate = "passed"

\* the content of the message after validateInput
SanitizedContent == validateInput(last.msg.content).content

Flagged == \E i \in 1..Len(SanitizedContent) : SanitizedContent[i] \in SuspiciousAtoms

WarningBanner == <<"[warning] ">> \o InjectionWarning \o <<"\n\n">>

StartsWith(text, prefix) ==
  Len(text) >= Len(prefix) /\ SubSeq(text, 1, Len(prefix)) = prefix

\* C13: the injection heuristic blocks no message: a regular message that passed
\* the gate, flagged or not, is appended to the history and sent upstream as the
\* last message of the request, and the reply of a successful turn starts with the
\* warning banner exactly when the sanitized content matches a pattern.
C13_HeuristicNeverBlocks ==
  RegularTurn =>
    LET h == sessions[last.key].conversationHistory
        sent == chat.request.messages
        user == Entry("user", SanitizedContent)
    IN /\ last.handler = "chat"
       /\ chat.requests # <<>>
       /\ sent[Len(sent)] = user
       /\ chat.pc = "thrown" => h = Append(ResolvedHistory, user)
       /\ chat.pc = "returned" =>
            /\ Len(h) = Len(ResolvedHistory) + 2
            /\ h[Len(h) - 1] = user
            /\ last.thrown = Nil
            /\ StartsWith(last.response.content, WarningBanner) = Flagged

\* a flagged message answered by the upstream, in a session that has a history
C13_Witness ==
  /\ RegularTurn
  /\ Flagged
  /\ chat.pc = "returned"
  /\ ResolvedHistory # <<>>
  /\ StartsWith(last.response.content, WarningBanner)

Failed == last.op = "processMessage" /\ last.thrown # Nil

\* the message texts of the errors thrown inside the upstream client
InternalTexts == {"thrown message", "axios message"}

\* the reply to each kind of failure, as handleError's switch gives it
FailureKindsMapped ==
  Failed =>
    /\ last.response.error = TRUE
    /\ ~IsAppError(last.thrown) =>
         last.response.content = <<"An unexpected error occurred. Please try again later.">>
    /\ IsAppError(last.thrown) =>
         /\ last.thrown.code = "RATE_LIMITED" =>
              last.response.content = <<"[hourglass] ">> \o last.thrown.message
         /\ last.thrown.code = "NOT_WHITELISTED" =>
              last.response.content = <<"[lock] ">> \o last.thrown.message
         /\ last.thrown.code = "API_RATE_LIMITED" =>
              last.response.content =
                <<"The AI service is currently busy. Please try again in a moment.">>
         /\ last.thrown.code = "API_TIMEOUT" =>
              last.response.content =
                <<"The request took too long. Please try again with a shorter message.">>

\* C14: handleError answers every failure with error = true and the message of
\* its kind (wait time, access denied, busy, timeout, generic failure), and no
\* reply carries the text of an internal error.
C14_ErrorsMappedNoDetail ==
  /\ FailureKindsMapped
  /\ Failed =>
       \A i \in 1..Len(last.response.content) :
         last.response.content[i] \notin InternalTexts

\* the session getOrCreateSession resolved for the message, before the gate and
\* the handler
ResolvedSession ==
  getOrCreateSession(config, last.stored, last.msg.platform, last.msg.userId,
                     IF last.created THEN nextSessionId - 1 ELSE nextSessionId,
                     last.at).session

AdminCommand ==
  /\ Processed
  /\ last.msg.isCommand
  /\ last.msg.command \in {Some(<<"setprompt">>), Some(<<"config">>)}

RoleFromAdminList ==
  \A k \in Keys :
    sessions[k] # Nil =>
      (sessions[k].role = "admin") = (sessions[k].userId \in config.adminUserIds)

\* C15: /setprompt and /config from a session that is not an administrator's are
\* answered with error = true and change neither the session nor the registry;
\* the role of every session is admin exactly when its user is in the admin list,
\* whatever commands were processed.
C15_AdminOnlyCommands ==
  /\ (AdminCommand /\ ResolvedSession.role # "admin") =>
       /\ last.response.error = TRUE
       /\ sessions[last.key] = ResolvedSession
       /\ registry = loadConfig(config, persisted)
  /\ RoleFromAdminList
  /\ Processed => sessions[last.key].role = ResolvedSession.role

\* /setprompt from a user who is no administrator and whose session holds the
\* custom prompt of a preset
C15_Witness ==
  /\ AdminCommand
  /\ last.handler = "setprompt"
  /\ ResolvedSession.role # "admin"
  /\ ~last.created
  /\ sessions[last.key].customSystemPrompt # None
  /\ last.response = AdminOnly

Rejected == IsAppError(last.thrown) /\ last.thrown.code = "NOT_WHITELISTED"

\* C20: with the allow-list enabled a message is rejected with NOT_WHITELISTED
\* exactly when its user is in neither the allow-list nor the admin list; with
\* the allow-list disabled no message is rejected for its user.
C20_AllowList ==
  Processed =>
    (Rejected = (/\ config.whitelistEnabled
                 /\ last.msg.userId \notin config.whitelistedUserIds
                 /\ last.msg.userId \notin config.adminUserIds))

\* a user of the allow-list who is no administrator passes while it is enabled
C20_Witness ==
  /\ Processed
  /\ config.whitelistEnabled
  /\ last.msg.userId \in config.whitelistedUserIds \ config.adminUserIds
  /\ last.gate = "passed"

\* the message passed authorization and the rate limit, so validateInput ran
InputChecked == Processed /\ last.gate \in {"validation", "passed"}

Blank(content) == \A i \in 1..Len(content) : content[i] = SP

\* C22: validateInput throws AppError INVALID_INPUT exactly for content that is
\* empty, only blanks or longer than 4000 characters, and a message rejected by
\* it leaves the history of its session as it was.
C22_InputValidated ==
  InputChecked =>
    /\ (last.gate = "validation") =
         (Blank(last.msg.content) \/ StrLen(last.msg.content) > 4000)
    /\ last.gate = "validation" =>
         /\ last.thrown.code = "INVALID_INPUT"
         /\ sessions[last.key].conversationHistory = ResolvedHistory

\* a message of 4001 characters is rejected in a session that has a history
C22_Witness ==
  /\ InputChecked
  /\ StrLen(last.msg.content) = 4001
  /\ last.gate = "validation"
  /\ ResolvedHistory # <<>>

\* a message of exactly 4000 characters is accepted
C22_LimitAccepted ==
  /\ InputChecked
  /\ StrLen(last.msg.content) = 4000
  /\ last.gate = "passed"

\* a chat turn whose upstream call returned
AnsweredTurn == Processed /\ last.handler = "chat" /\ last.thrown = Nil

\* the newest entry of the stored history of the sender
NewestEntry ==
  sessions[last.key].conversationHistory[Len(sessions[last.key].conversationHistory)]

\* C23: the assistant entry stored for a chat turn is the output of the upstream
\* call as validateOutput returns it: the apology when the output is empty or
\* blank, the output itself when it has at most 8000 characters, and its first
\* 8000 characters followed by the truncation marker otherwise.
C23_OutputValidated ==
  AnsweredTurn =>
    /\ NewestEntry.role = "assistant"
    /\ NewestEntry.content =
         (IF Blank(chat.result.content) THEN Apology
          ELSE IF StrLen(chat.result.content) <= 8000 THEN chat.result.content
          ELSE Substring(chat.result.content, 8000)
                 \o <<"\n\n[Response truncated due to length]">>)

\* an output of 8001 characters was stored cut to 8000 with the marker
C23_Witness ==
  /\ AnsweredTurn
  /\ StrLen(chat.result.content) = 8001
  /\ NewestEntry.content # chat.result.content
  /\ NewestEntry.content[Len(NewestEntry.content)] = "\n\n[Response truncated due to length]"

\* an empty output was stored as the apology
C23_ApologyStored == AnsweredTurn /\ chat.result.content = <<>> /\ NewestEntry.content = Apology

\* an output of exactly 8000 characters was stored as it came
C23_LimitStored ==
  AnsweredTurn /\ StrLen(chat.result.content) = 8000 /\ NewestEntry.content = chat.result.content

\* a chat turn whose upstream call failed after its retries
FailedTurn == RegularTurn /\ last.handler = "chat" /\ last.thrown # Nil

\* the history a chat turn works on: that of the resolved session and the
\* user's entry
TurnHistory == Append(ResolvedHistory, Entry("user", SanitizedContent))

\* C26: a chat turn whose upstream call fails leaves the user's entry appended
\* to the stored history and adds no assistant entry, and every chat turn sends
\* the whole stored history upstream, consecutive user entries of failed turns
\* included.
C26_NoRollback ==
  /\ FailedTurn => sessions[last.key].conversationHistory = TurnHistory
  /\ ChatTurn => Tail(chat.request.messages) = TurnHistory

\* a second failed turn in a row: two consecutive user entries were sent
\* upstream and are stored
C26_Witness ==
  /\ FailedTurn
  /\ ResolvedHistory # <<>>
  /\ ResolvedHistory[Len(ResolvedHistory)].role = "user"
  /\ chat.request.messages[Len(chat.request.messages) - 1].role = "user"
  /\ Len(sessions[last.key].conversationHistory) = Len(ResolvedHistory) + 1

\* the sender has a record of the limiter whose window is open when the message
\* is processed
WindowOpen == last.limiterBefore # Nil /\ last.limiterBefore.expiresAt > last.at

\* C29: a message of an authorized user consumes exactly one point of the key
\* of its sender, whether it is a command, is rejected as invalid or is over
\* the quota; a message rejected by authorization consumes none; and when a
\* check rejects a message the store already holds the session of the sender,
\* created or refreshed for this message.
C29_PointBeforeValidation ==
  Processed =>
    /\ ~Unauthorized =>
         /\ limiter[last.key] # Nil
         /\ limiter[last.key].value =
              (IF WindowOpen THEN last.limiterBefore.value + 1 ELSE 1)
    /\ Unauthorized => limiter[last.key] = last.limiterBefore
    /\ \A k \in Keys \ {last.key} : limiter[k] # Nil => lastOf[k] # NoLast
    /\ last.gate # "passed" =>
         /\ sessions[last.key] = ResolvedSession
         /\ sessions[last.key].lastActivityAt = last.at

\* a command without arguments is rejected as invalid after it consumed the
\* second point of its sender
C29_Witness ==
  /\ Processed
  /\ last.msg.isCommand
  /\ last.gate = "validation"
  /\ WindowOpen
  /\ limiter[last.key].value = 2
  /\ sessions[last.key] # Nil

\* a message rejected by authorization finds its session stored and consumes nothing
C29_UnauthorizedStored ==
  /\ Processed
  /\ last.gate = "authorization"
  /\ limiter[last.key] = Nil
  /\ last.created
  /\ sessions[last.key] # Nil

(***************************************************************************)
(* PromptManager: the mutations of the registry.  `presets` is a plain     *)
(* JavaScript object, so presets[key] finds the members of                 *)
(* Object.prototype under keys the object does not own.                    *)
(***************************************************************************)
PrototypeKeys == {"constructor", "toString"}

\* whether presets[key] is truthy
TruthyPreset(presets, key) == key \in DOMAIN presets \/ key \in PrototypeKeys

\* delete presets[key]
DeleteKey(presets, key) == [k \in DOMAIN presets \ {key} |-> presets[k]]

\* presets[key] = preset
PutKey(presets, key, preset) ==
  [k \in DOMAIN presets \cup {key} |-> IF k = key THEN preset ELSE presets[k]]

\* What a call of fs.writeFileSync can do to the file: write it, fail and leave it
\* as it was, or fail after the file was opened for writing and cut short.
WriteOutcomes == {"written", "failed", "truncated"}

\* the document after saveConfig, which catches the error of a failed write
saveConfig(reg, document, write) ==
  CASE write = "written" -> Document(reg)
    [] write = "failed" -> document
    [] OTHER -> Corrupt

\* Every mutation gives the registry and the document after it, and what it returns.
Mutated(reg, document, returned) ==
  [registry |-> reg, persisted |-> document, returned |-> returned]

setGlobalSystemPrompt(reg, document, prompt, write) ==
  LET reg2 == [reg EXCEPT !.globalSystemPrompt = prompt]
  IN Mutated(reg2, saveConfig(reg2, document, write), Nil)

setDefaultModel(reg, document, model, write) ==
  LET reg2 == [reg EXCEPT !.defaultModel = model]
  IN Mutated(reg2, saveConfig(reg2, document, write), Nil)

\* setDefaultTemperature storing its argument as it came
setDefaultTemperatureUnclamped(reg, document, temperature, write) ==
  LET reg2 == [reg EXCEPT !.defaultTemperature = temperature]
  IN Mutated(reg2, saveConfig(reg2, document, write), Nil)

\* Math.max(0, Math.min(2, temperature)), in tenths
setDefaultTemperature(reg, document, temperature, write) ==
  LET reg2 == [reg EXCEPT !.defaultTemperature = Max(0, Min(20, temperature))]
  IN Mutated(reg2, saveConfig(reg2, document, write), Nil)

setDefaultMaxTokens(reg, document, maxTokens, write) ==
  LET reg2 == [reg EXCEPT !.defaultMaxTokens = Max(1, Min(8192, maxTokens))]
  IN Mutated(reg2, saveConfig(reg2, document, write), Nil)

setPreset(reg, document, key, preset, write) ==
  LET reg2 == [reg EXCEPT !.presets = PutKey(reg.presets, key, preset)]
  IN Mutated(reg2, saveConfig(reg2, document, write), Nil)

deletePreset(reg, document, key, write) ==
  LET reg2 == [reg EXCEPT !.presets = DeleteKey(reg.presets, key)]
  IN IF key = "default" THEN Mutated(reg, document, FALSE)
     ELSE IF TruthyPreset(reg.presets, key)
       THEN Mutated(reg2, saveConfig(reg2, document, write), TRUE)
       ELSE Mutated(reg, document, FALSE)

reloadConfig(cfg, reg, document) == Mutated(loadConfig(cfg, document), document, Nil)

(***************************************************************************)
(* The registry under the calls of the admin API, each with an outcome of  *)
(* the write of the document.                                              *)
(***************************************************************************)
MaxRegSteps == 3

CustomPreset == Preset(<<"Custom">>, <<"You are custom.">>, Some("sonar"), None)

\* keys the calls name: shipped presets, a key of the start document, a new key and
\* a key of Object.prototype
PresetKeys == {"default", "coder", "zero", "custom", "constructor"}

InitRegistry ==
  \E d \in StartDocuments : Constructed([DefaultConfig EXCEPT !.adminUserIds = {"a1"}], d)

RegFrame == UNCHANGED <<redis, held, procs, config, now, sessions, nextSessionId, limiter, chat, lastOf>>

\* one returned call of a mutation, with the registry and the document before it
RegCall(op, arg, write, r) ==
  /\ steps < MaxRegSteps
  /\ steps' = steps + 1
  /\ registry' = r.registry
  /\ persisted' = r.persisted
  /\ last' = [op |-> op, arg |-> arg, write |-> write, returned |-> r.returned,
              registry |-> registry, persisted |-> persisted]
  /\ RegFrame

RegSetPrompt(write) ==
  RegCall("setGlobalSystemPrompt", <<"new prompt">>, write,
          setGlobalSystemPrompt(registry, persisted, <<"new prompt">>, write))

RegSetModel(write) ==
  RegCall("setDefaultModel", "sonar", write,
          setDefaultModel(registry, persisted, "sonar", write))

RegSetTemperature(temperature, write) ==
  RegCall("setDefaultTemperature", temperature, write,
          setDefaultTemperature(registry, persisted, temperature, write))

RegSetMaxTokens(maxTokens, write) ==
  RegCall("setDefaultMaxTokens", maxTokens, write,
          setDefaultMaxTokens(registry, persisted, maxTokens, write))

RegSetPreset(key, write) ==
  RegCall("setPreset", key, write,
          setPreset(registry, persisted, key, CustomPreset, write))

RegDeletePreset(key, write) ==
  RegCall("deletePreset", key, write, deletePreset(registry, persisted, key, write))

RegReload ==
  RegCall("reloadConfig", Nil, "none", reloadConfig(config, registry, persisted))

NextRegistry ==
  \/ \E w \in WriteOutcomes : RegSetPrompt(w)
  \/ \E w \in WriteOutcomes : RegSetModel(w)
  \/ \E t \in {-5, 3, 25}, w \in WriteOutcomes : RegSetTemperature(t, w)
  \/ \E n \in {0, 100, 9000}, w \in WriteOutcomes : RegSetMaxTokens(n, w)
  \/ \E k \in {"custom", "coder"}, w \in WriteOutcomes : RegSetPreset(k, w)
  \/ \E k \in PresetKeys, w \in WriteOutcomes : RegDeletePreset(k, w)
  \/ RegReload

SpecRegistry == InitRegistry /\ [][NextRegistry]_vars

Deleted == last.op = "deletePreset"

\* C11: deletePreset('default') returns false and changes neither the registry nor
\* the document; for any other key that is present it returns true and removes that
\* key only; for a key that is absent it returns false and changes nothing.
C11_DeletePreset ==
  Deleted =>
    /\ last.arg = "default" =>
         /\ last.returned = FALSE
         /\ registry = last.registry /\ persisted = last.persisted
    /\ last.arg # "default" /\ last.arg \in DOMAIN last.registry.presets =>
         /\ last.returned = TRUE
         /\ registry = [last.registry EXCEPT
                          !.presets = DeleteKey(last.registry.presets, last.arg)]
    /\ last.arg \notin DOMAIN last.registry.presets =>
         /\ last.returned = FALSE
         /\ registry = last.registry /\ persisted = last.persisted

\* deletePreset behaves as C11 says for every key that is no member of Object.prototype
DeletePresetOrdinaryKeys == Deleted /\ last.arg \notin PrototypeKeys => C11_DeletePreset

(***************************************************************************)
(* Specification SpecSweep: getOrCreateSession and the sweep over the      *)
(* RedisStorage, each suspended at its awaited storage calls.  A step of a *)
(* call is: the server executes the command in flight, the call resumes    *)
(* with the reply and runs up to its next storage command.                 *)
(***************************************************************************)
MaxRaceSteps == 4

Waiting(proc) == proc.pc \notin {"idle", "done"}

InitSweep ==
  Constructed([DefaultConfig EXCEPT !.sessionTimeoutSeconds = 1, !.adminUserIds = {"a1"}],
              Nil)

SweepFrame ==
  UNCHANGED <<config, sessions, limiter, registry, persisted, chat, lastOf, held>>

\* initRedis has imported the client library and created the client
InitRedis ==
  /\ ~redis.client
  /\ redis' = [redis EXCEPT !.client = TRUE]
  /\ UNCHANGED <<now, nextSessionId, last, steps, procs>>
  /\ SweepFrame

\* getOrCreateSession(platform, userId) is called: storage.get(key) is in flight
GocCall(k) ==
  /\ steps < MaxRaceSteps
  /\ ~Waiting(procs.goc)
  /\ procs' = [procs EXCEPT !.goc = [pc |-> "get", key |-> k, session |-> Nil,
                                     client |-> redis.client,
                                     alone |-> ~Waiting(procs.sweep)]]
  /\ steps' = steps + 1
  /\ UNCHANGED <<now, nextSessionId, last, redis>>
  /\ SweepFrame

\* storage.get(key) answers: an expired session is deleted, a live one refreshed,
\* and without a session a new one is created
GocGot ==
  LET key == procs.goc.key
      session == RedisStorageGet(redis, key, now)
  IN /\ procs.goc.pc = "get"
     /\ IF session # Nil /\ Expired(config, session, now)
          THEN /\ procs' = [procs EXCEPT !.goc.pc = "delete"]
               /\ UNCHANGED nextSessionId
          ELSE IF session # Nil
            THEN /\ procs' = [procs EXCEPT !.goc.pc = "set",
                                !.goc.session = [session EXCEPT !.lastActivityAt = now]]
                 /\ UNCHANGED nextSessionId
            ELSE /\ procs' = [procs EXCEPT !.goc.pc = "set",
                                !.goc.session = createNewSession(config, key[1], key[3],
                                                                 nextSessionId, now)]
                 /\ nextSessionId' = nextSessionId + 1
     /\ UNCHANGED <<now, last, steps, redis>>
     /\ SweepFrame

\* storage.delete(key) of the expired session is done: a new session is created
GocDeleted ==
  LET key == procs.goc.key
  IN /\ procs.goc.pc = "delete"
     /\ redis' = RedisStorageDelete(redis, key)
     /\ procs' = [procs EXCEPT !.goc.pc = "set",
                    !.goc.session = createNewSession(config, key[1], key[3],
                                                     nextSessionId, now)]
     /\ nextSessionId' = nextSessionId + 1
     /\ UNCHANGED <<now, last, steps>>
     /\ SweepFrame

\* storage.set(key, session) is done: getOrCreateSession returns the session
GocStored ==
  /\ procs.goc.pc = "set"
  /\ redis' = RedisStorageSet(config, redis, procs.goc.key, procs.goc.session, now)
  /\ procs' = [procs EXCEPT !.goc.pc = "done"]
  /\ last' = [op |-> "getOrCreateSession", key |-> procs.goc.key,
              returned |-> procs.goc.session, at |-> now]
  /\ UNCHANGED <<now, nextSessionId, steps>>
  /\ SweepFrame

\* the loop of the sweep goes on with one of the keys left, or ends
SweepNext(rest, at) ==
  IF rest = {} THEN procs' = [procs EXCEPT !.sweep = [pc |-> "done"]]
  ELSE \E key \in rest :
         procs' = [procs EXCEPT !.sweep = [pc |-> "get", key |-> key,
                                           rest |-> rest \ {key}, at |-> at]]

\* the timer fires: storage.getAllKeys() is in flight
SweepFire ==
  /\ steps < MaxRaceSteps
  /\ ~Waiting(procs.sweep)
  /\ procs' = [procs EXCEPT !.sweep = [pc |-> "keys"],
                            !.goc = IF Waiting(@) THEN [@ EXCEPT !.alone = FALSE] ELSE @]
  /\ steps' = steps + 1
  /\ UNCHANGED <<now, nextSessionId, last, redis>>
  /\ SweepFrame

\* getAllKeys() answers: now is read and the loop starts
SweepKeys ==
  /\ procs.sweep.pc = "keys"
  /\ SweepNext(RedisStorageGetAllKeys(redis, now), now)
  /\ UNCHANGED <<now, nextSessionId, last, steps, redis>>
  /\ SweepFrame

\* storage.get(key) answers: the delete of an expired session is in flight
SweepGot ==
  LET sw == procs.sweep
      session == RedisStorageGet(redis, sw.key, now)
  IN /\ sw.pc = "get"
     /\ IF session # Nil /\ Expired(config, session, sw.at)
          THEN procs' = [procs EXCEPT !.sweep.pc = "delete"]
          ELSE SweepNext(sw.rest, sw.at)
     /\ UNCHANGED <<now, nextSessionId, last, steps, redis>>
     /\ SweepFrame

\* storage.delete(key) is done
SweepDeleted ==
  /\ procs.sweep.pc = "delete"
  /\ redis' = RedisStorageDelete(redis, procs.sweep.key)
  /\ SweepNext(procs.sweep.rest, procs.sweep.at)
  /\ UNCHANGED <<now, nextSessionId, last, steps>>
  /\ SweepFrame

NextSweep ==
  \/ InitRedis
  \/ \E k \in SessKeys : GocCall(k)
  \/ GocGot \/ GocDeleted \/ GocStored
  \/ SweepFire \/ SweepKeys \/ SweepGot \/ SweepDeleted
  \/ Tick

SpecSweep == InitSweep /\ [][NextSweep]_vars

\* both calls have completed, getOrCreateSession ran with a client and the
\* session it returned is not stale
BothCompleted ==
  /\ procs.goc.pc = "done" /\ procs.goc.client
  /\ procs.sweep.pc = "done"
  /\ ~Expired(config, procs.goc.session, now)

\* C16: however the sweep and a getOrCreateSession for the same key interleave at
\* their awaited storage calls, once both have completed the store holds under
\* the key the session getOrCreateSession returned, as when one runs after the
\* other.
C16_SweepRaceHarmless ==
  BothCompleted => RedisStorageGet(redis, procs.goc.key, now) = procs.goc.session

\* the same when no sweep ran while getOrCreateSession was in progress
SequentialSweepHarmless ==
  (BothCompleted /\ procs.goc.alone) =>
    RedisStorageGet(redis, procs.goc.key, now) = procs.goc.session

(***************************************************************************)
(* Specification SpecStorage: the same calls of SessionManager made on a   *)
(* manager over InMemoryStorage (`sessions`) and on one over RedisStorage  *)
(* (`redis`).  Each caller works on the session its last                   *)
(* getOrCreateSession returned (`held`).                                   *)
(***************************************************************************)
MaxStoreSteps == 4

InitStorage ==
  Constructed([DefaultConfig EXCEPT !.sessionTimeoutSeconds = 1, !.adminUserIds = {"a1"}],
              Nil)

StorageFrame ==
  UNCHANGED <<config, now, limiter, registry, persisted, chat, last, procs>>

\* the calls made so far for the key, and whether one was made without a client
Called(k, op) ==
  lastOf' = [lastOf EXCEPT ![k] =
               [op |-> op,
                offline |-> ~redis.client \/ (lastOf[k].op # "none" /\ lastOf[k].offline)]]

StoreInitRedis ==
  /\ ~redis.client
  /\ redis' = [redis EXCEPT !.client = TRUE]
  /\ UNCHANGED <<sessions, nextSessionId, held, lastOf, steps>>
  /\ StorageFrame

\* getOrCreateSession on both managers, gm and gr being what each returns
StoreGetOrCreateSession(k, gm, gr) ==
  /\ steps < MaxStoreSteps
  /\ sessions' = [sessions EXCEPT ![k] = gm.session]
  /\ redis' = RedisStorageSet(config,
                              IF gr.created THEN RedisStorageDelete(redis, k) ELSE redis,
                              k, gr.session, now)
  /\ held' = [held EXCEPT !.memory[k] = gm.session, !.redis[k] = gr.session]
  /\ nextSessionId' = IF gm.created \/ gr.created THEN nextSessionId + 1 ELSE nextSessionId
  /\ Called(k, "getOrCreateSession")
  /\ steps' = steps + 1
  /\ StorageFrame

\* a method that changes the session the caller holds and ends in updateSession:
\* lastActivityAt = now and storage.set(key, session)
StoreUpdate(k, op, um, ur) ==
  /\ steps < MaxStoreSteps
  /\ held.memory[k] # Nil /\ held.redis[k] # Nil
  /\ sessions' = [sessions EXCEPT ![k] = um]
  /\ redis' = RedisStorageSet(config, redis, k, ur, now)
  /\ held' = [held EXCEPT !.memory[k] = um, !.redis[k] = ur]
  /\ Called(k, op)
  /\ steps' = steps + 1
  /\ UNCHANGED nextSessionId
  /\ StorageFrame

StoreAddMessage(k, e) ==
  StoreUpdate(k, "addMessage",
              addMessage(config, held.memory[k], e.role, e.content, now),
              addMessage(config, held.redis[k], e.role, e.content, now))

StoreClearHistory(k) ==
  StoreUpdate(k, "clearHistory", clearHistory(held.memory[k], now),
              clearHistory(held.redis[k], now))

StoreUpdateSession(k) ==
  StoreUpdate(k, "updateSession", updateSession(held.memory[k], now),
              updateSession(held.redis[k], now))

\* deleteSession(platform, userId): storage.delete(key)
StoreDeleteSession(k) ==
  /\ steps < MaxStoreSteps
  /\ sessions' = [sessions EXCEPT ![k] = Nil]
  /\ redis' = RedisStorageDelete(redis, k)
  /\ Called(k, "deleteSession")
  /\ steps' = steps + 1
  /\ UNCHANGED <<nextSessionId, held>>
  /\ StorageFrame

NextStorage ==
  \/ StoreInitRedis
  \/ \E k \in SessKeys :
       StoreGetOrCreateSession(
         k,
         getOrCreateSession(config, sessions[k], k[1], k[3], nextSessionId, now),
         getOrCreateSession(config, RedisStorageGet(redis, k, now), k[1], k[3],
                            nextSessionId, now))
  \/ \E k \in SessKeys, e \in SessEntries : StoreAddMessage(k, e)
  \/ \E k \in SessKeys : StoreClearHistory(k)
  \/ \E k \in SessKeys : StoreUpdateSession(k)
  \/ \E k \in SessKeys : StoreDeleteSession(k)
  \/ Tick

SpecStorage == InitStorage /\ [][NextStorage]_vars

\* what a caller can see of a session: history, overrides, role and freshness
Observed(session) ==
  IF session = Nil THEN Nil
  ELSE [conversationHistory |-> session.conversationHistory,
        customSystemPrompt |-> session.customSystemPrompt,
        modelOverride |-> session.modelOverride,
        temperatureOverride |-> session.temperatureOverride,
        role |-> session.role,
        createdAt |-> session.createdAt,
        lastActivityAt |-> session.lastActivityAt]

\* C17: after every sequence of getOrCreateSession, addMessage, clearHistory,
\* updateSession and deleteSession calls, made before or after the Redis client
\* exists, the sessions the two storage variants gave their callers show the same
\* history, overrides, role and freshness.
C17_VariantsEquivalent ==
  \A k \in SessKeys : Observed(held.memory[k]) = Observed(held.redis[k])

\* the same for the keys all of whose calls were made with a client
EquivalentWithClient ==
  \A k \in SessKeys :
    (lastOf[k].op # "none" /\ ~lastOf[k].offline) =>
      Observed(held.memory[k]) = Observed(held.redis[k])

(***************************************************************************)
(* Specification SpecTimer: the SessionManager over InMemoryStorage with   *)
(* the sweep fired by its interval timer for as long as the process runs.  *)
(***************************************************************************)
MaxTimerSteps == 3

\* a call of a public method, of which a run makes MaxTimerSteps at most
TimerCall(A) == steps < MaxTimerSteps /\ A

\* the interval timer fires: the sweep runs
SweepTimer ==
  /\ sessions' = cleanupExpiredSessions(config, sessions, now)
  /\ last' = [op |-> "cleanupExpiredSessions", at |-> now,
              removed |-> {k \in Keys : sessions[k] # Nil
                                        /\ Expired(config, sessions[k], now)}]
  /\ UNCHANGED <<nextSessionId, steps>>
  /\ SessFrame

NextTimer ==
  \/ \E k \in SessKeys : TimerCall(SessGetOrCreate(k))
  \/ \E k \in SessKeys, e \in SessEntries : TimerCall(SessAddMessage(k, e))
  \/ \E k \in SessKeys : TimerCall(SessClearHistory(k))
  \/ SweepTimer
  \/ Tick

SpecTimer == InitSession /\ [][NextTimer]_vars /\ WF_vars(SweepTimer)

Stale(k) == sessions[k] # Nil /\ Expired(config, sessions[k], now)

\* C18: with the sweep timer firing fairly, a session idle for more than
\* sessionTimeoutSeconds does not stay in the store unless it is accessed again,
\* and no step removes from the store a session idle for at most
\* sessionTimeoutSeconds.
C18_SweepRemovesIdle ==
  /\ \A k \in SessKeys : Stale(k) ~> ~Stale(k)
  /\ [][\A k \in SessKeys :
          (sessions[k] # Nil /\ sessions'[k] = Nil) => Stale(k)]_vars

\* the sweep removed the stale session of one user and kept the live one of another
C18_Witness ==
  /\ last.op = "cleanupExpiredSessions"
  /\ \E k \in SessKeys : k \in last.removed /\ sessions[k] = Nil
  /\ \E k \in SessKeys : sessions[k] # Nil /\ now - sessions[k].lastActivityAt > 0

(***************************************************************************)
(* Persistence of the registry                                             *)
(***************************************************************************)
\* a mutation of the registry has returned (deletePreset: with true)
MutationReturned ==
  /\ last.op \in {"setGlobalSystemPrompt", "setDefaultModel", "setDefaultTemperature",
                  "setDefaultMaxTokens", "setPreset", "deletePreset"}
  /\ last.op = "deletePreset" => last.returned = TRUE

\* C19: whenever a mutation of the registry returns, the persisted document
\* equals the configuration in memory, also when the write of the document failed.
C19_PersistedEqualsMemory == MutationReturned => persisted = Document(registry)

\* the same for the mutations whose write succeeded
PersistedWhenWritten ==
  (MutationReturned /\ last.write = "written") => persisted = Document(registry)

(***************************************************************************)
(* The admin API (express).  A request is the route it matches, the key of *)
(* its path, the members of its JSON body, its x-api-key header and the    *)
(* address of its caller.  A member of the body is Nil when it is absent.  *)
(***************************************************************************)
JString(s) == [type |-> "string", value |-> s, truthy |-> s # <<>>]
JName(m) == [type |-> "string", value |-> m, truthy |-> TRUE]
JNumber(n) == [type |-> "number", number |-> n, truthy |-> n # 0]

\* JavaScript truthiness of a member of the body
Truthy(v) == v # Nil /\ v.truthy

Reply(status, body) == [status |-> status, body |-> body]

LoopbackAddresses == {"127.0.0.1", "::1", "::ffff:127.0.0.1"}

\* the middleware calls next()
Pass == [next |-> TRUE]

\* the middleware that lets every request pass
authenticateAdminOpen(expectedKey, apiKey, clientIp) == Pass

\* The middleware of the /admin routes: "next" or the reply it sends.  expectedKey
\* is process.env.ADMIN_API_KEY (None when unset), apiKey the header (None when
\* absent).
authenticateAdmin(expectedKey, apiKey, clientIp) ==
  IF expectedKey = None \/ expectedKey = Some(<<>>)
    THEN IF clientIp \in LoopbackAddresses
           THEN Pass
           ELSE Reply(401, [error |-> "Unauthorized"])
    ELSE IF apiKey # expectedKey
           THEN Reply(401, [error |-> "Invalid API key"])
           ELSE Pass

AdminRoutes ==
  {"GET /admin/config", "PUT /admin/config/prompt", "PUT /admin/config/model",
   "PUT /admin/config/temperature", "GET /admin/presets", "PUT /admin/presets/:key",
   "DELETE /admin/presets/:key", "POST /admin/config/reload", "GET /admin/models",
   "POST /admin/validate-api-key"}

HealthRoutes == {"GET /health", "GET /health/detailed"}

\* what a handler leaves: its reply, the registry and the document
Handled(reply, r) == [reply |-> reply, registry |-> r.registry, persisted |-> r.persisted]

Success(message) == [success |-> TRUE, message |-> message]

\* The handler of a route, run once the middleware has passed.  isValid is what
\* validateApiKey resolves to.
AdminHandler(cfg, reg, document, request, write, isValid) ==
  LET body == request.body
      key == request.key
      same == Mutated(reg, document, Nil)
  IN CASE request.route = "GET /health" ->
            Handled(Reply(200, [status |-> "ok"]), same)
       [] request.route = "GET /health/detailed" ->
            Handled(Reply(200, [status |-> "ok",
                                model |-> reg.defaultModel,
                                temperature |-> reg.defaultTemperature,
                                whitelistEnabled |-> cfg.whitelistEnabled,
                                rateLimitRequests |-> cfg.rateLimitRequests,
                                rateLimitWindow |-> cfg.rateLimitWindowSeconds]), same)
       [] request.route = "GET /admin/config" ->
            Handled(Reply(200, reg), same)
       [] request.route = "PUT /admin/config/prompt" ->
            IF ~Truthy(body.prompt) \/ body.prompt.type # "string"
              THEN Handled(Reply(400, [error |-> "Prompt is required and must be a string"]),
                           same)
              ELSE Handled(Reply(200, Success("Global system prompt updated")),
                           setGlobalSystemPrompt(reg, document, body.prompt.value, write))
       [] request.route = "PUT /admin/config/model" ->
            IF ~Truthy(body.model) \/ body.model.value \notin AvailableModels
              THEN Handled(Reply(400, [error |-> "Invalid model"]), same)
              ELSE Handled(Reply(200, Success("Default model updated")),
                           setDefaultModel(reg, document, body.model.value, write))
       [] request.route = "PUT /admin/config/temperature" ->
            IF \/ body.temperature = Nil
               \/ body.temperature.type # "number"
               \/ body.temperature.number < 0
               \/ body.temperature.number > 20
              THEN Handled(Reply(400, [error |-> "Temperature must be a number between 0 and 2"]),
                           same)
              ELSE Handled(Reply(200, Success("Default temperature updated")),
                           setDefaultTemperature(reg, document, body.temperature.number, write))
       [] request.route = "GET /admin/presets" ->
            Handled(Reply(200, reg.presets), same)
       [] request.route = "PUT /admin/presets/:key" ->
            IF ~Truthy(body.name) \/ ~Truthy(body.description) \/ ~Truthy(body.prompt)
              THEN Handled(Reply(400, [error |-> "name, description, and prompt are required"]),
                           same)
              ELSE Handled(Reply(200, Success("Preset updated")),
                           setPreset(reg, document, key,
                                     [name |-> body.name.value,
                                      description |-> body.description.value,
                                      prompt |-> body.prompt.value,
                                      model |-> IF body.model = Nil THEN None
                                                ELSE Some(body.model.value),
                                      temperature |-> IF body.temperature = Nil THEN None
                                                      ELSE Some(body.temperature.number)],
                                     write))
       [] request.route = "DELETE /admin/presets/:key" ->
            IF key = "default"
              THEN Handled(Reply(400, [error |-> "Cannot delete default preset"]), same)
              ELSE LET r == deletePreset(reg, document, key, write)
                   IN IF r.returned = FALSE
                        THEN Handled(Reply(404, [error |-> "Preset not found"]), r)
                        ELSE Handled(Reply(200, Success("Preset deleted")), r)
       [] request.route = "POST /admin/config/reload" ->
            Handled(Reply(200, Success("Configuration reloaded")),
                    reloadConfig(cfg, reg, document))
       [] request.route = "GET /admin/models" ->
            Handled(Reply(200, [models |-> AvailableModels, current |-> reg.defaultModel]),
                    same)
       [] OTHER ->
            Handled(Reply(200, [valid |-> isValid]), same)

\* express runs the middleware of the matching route, then its handler
AdminApp(cfg, reg, document, request, write, isValid) ==
  LET auth == IF request.route \in AdminRoutes
                THEN authenticateAdmin(cfg.adminApiKey, request.apiKey, request.clientIp)
                ELSE Pass
  IN IF auth = Pass
       THEN AdminHandler(cfg, reg, document, request, write, isValid)
       ELSE Handled(auth, Mutated(reg, document, Nil))

(***************************************************************************)
(* The registry under the requests of the admin API.                       *)
(***************************************************************************)
MaxAdminSteps == 2

\* the members of a body
Body(prompt, model, temperature, name, description) ==
  [prompt |-> prompt, model |-> model, temperature |-> temperature, name |-> name,
   description |-> description]

Route(route, key, body) == [route |-> route, key |-> key, body |-> body]

\* the requests to a route, by the key of the path ("" where the route has none)
\* and the body
RequestsTo(route) ==
  CASE route = "PUT /admin/config/prompt" ->
         {Route(route, "", Body(p, Nil, Nil, Nil, Nil)) :
            p \in {Nil, JString(<<>>), JNumber(5), JString(<<"new prompt">>)}}
    [] route = "PUT /admin/config/model" ->
         {Route(route, "", Body(Nil, m, Nil, Nil, Nil)) :
            m \in {Nil, JName("gpt-4"), JName("sonar"), JName("sonar-reasoning-pro")}}
    [] route = "PUT /admin/config/temperature" ->
         {Route(route, "", Body(Nil, Nil, t, Nil, Nil)) :
            t \in {Nil, JString(<<"1">>), JNumber(-5), JNumber(0), JNumber(25)}}
    [] route = "PUT /admin/presets/:key" ->
         {Route(route, k, Body(JString(<<"You are custom.">>), JName("sonar"), Nil,
                               JString(<<"Custom">>), d)) :
            k \in {"custom", "coder"}, d \in {Nil, JString(<<"custom">>)}}
    [] route = "DELETE /admin/presets/:key" ->
         {Route(route, k, Body(Nil, Nil, Nil, Nil, Nil)) : k \in PresetKeys}
    [] OTHER -> {Route(route, "", Body(Nil, Nil, Nil, Nil, Nil))}

\* the x-api-key header and the address of the caller of a request
Callers ==
  {<<None, "127.0.0.1">>, <<None, "::1">>, <<None, "::ffff:127.0.0.1">>,
   <<None, "10.0.0.7">>, <<Some(<<>>), "10.0.0.7">>, <<Some(<<"secret">>), "10.0.0.7">>,
   <<Some(<<"wrong">>), "127.0.0.1">>}

Request(routed, caller) ==
  [route |-> routed.route, key |-> routed.key, body |-> routed.body,
   apiKey |-> caller[1], clientIp |-> caller[2]]

\* ADMIN_API_KEY is unset, empty or set
InitAdmin ==
  \E e \in {None, Some(<<>>), Some(<<"secret">>)}, d \in StartDocuments :
    Constructed([DefaultConfig EXCEPT !.adminUserIds = {"a1"}, !.adminApiKey = e], d)

\* one request answered: h is what the app leaves, c the chat() of validateApiKey
AdminRequest(request, write, c, h) ==
  LET validated == request.route = "POST /admin/validate-api-key" /\ h.reply.status = 200
  IN /\ steps < MaxAdminSteps
     /\ steps' = steps + 1
     /\ registry' = h.registry
     /\ persisted' = h.persisted
     /\ chat' = IF validated THEN c ELSE chat
     /\ now' = IF validated THEN now + SumSeq(c.sleeps) ELSE now
     /\ last' = [op |-> "admin", request |-> request, reply |-> h.reply, write |-> write,
                 registry |-> registry, persisted |-> persisted]
     /\ UNCHANGED <<redis, held, procs, config, sessions, nextSessionId, limiter, lastOf>>

\* the routes whose handlers write the document
WritingRoutes ==
  {"PUT /admin/config/prompt", "PUT /admin/config/model", "PUT /admin/config/temperature",
   "PUT /admin/presets/:key", "DELETE /admin/presets/:key"}

AdminWrite(routed, caller, write) ==
  /\ routed.route \in WritingRoutes
  /\ AdminRequest(Request(routed, caller), write, chat,
                  AdminApp(config, registry, persisted, Request(routed, caller), write,
                           FALSE))

AdminValidate(routed, caller, script) ==
  /\ routed.route = "POST /admin/validate-api-key"
  /\ AdminRequest(Request(routed, caller), "none", validateApiKey(config, script),
                  AdminApp(config, registry, persisted, Request(routed, caller), "none",
                           validateApiKey(config, script).pc = "returned"))

AdminRead(routed, caller) ==
  /\ routed.route \notin WritingRoutes \cup {"POST /admin/validate-api-key"}
  /\ AdminRequest(Request(routed, caller), "none", chat,
                  AdminApp(config, registry, persisted, Request(routed, caller), "none",
                           FALSE))

\* the requests to the routes of the app
Routed == UNION {RequestsTo(route) : route \in AdminRoutes \cup HealthRoutes}

NextAdmin ==
  \E routed \in Routed, caller \in Callers :
    \/ \E write \in WriteOutcomes : AdminWrite(routed, caller, write)
    \/ \E script \in {OkScript, <<AxiosErr(401, "ERR_BAD_REQUEST", <<>>)>>} :
         AdminValidate(routed, caller, script)
    \/ AdminRead(routed, caller)

SpecAdmin == InitAdmin /\ [][NextAdmin]_vars

Answered == last.op = "admin"

\* what the claim calls authenticated
Authenticated(request) ==
  IF config.adminApiKey \in {None, Some(<<>>)}
    THEN request.clientIp \in LoopbackAddresses
    ELSE request.apiKey = config.adminApiKey

SystemPromptFirst ==
  chat.pc # "idle" =>
    \E a \in ChatCalls :
      chat.request.messages =
        <<[role |-> "system", content |-> a.systemPrompt]>> \o a.history

(***************************************************************************)
(* Two chat turns of one user processed concurrently over RedisStorage.    *)
(* Every await of the storage is a round trip to the server, so the two    *)
(* calls of processMessage interleave at each of them: an action is the    *)
(* server executing the command in flight and the call running on to its   *)
(* next await.  The upstream call is one step; it is answered at once or   *)
(* rejected at once, so no backoff sleep passes inside it.                 *)
(***************************************************************************)
TurnKey == getSessionKey("telegram", "u1")
TurnText(p) == IF p = 1 THEN <<"first">> ELSE <<"second">>
TurnScripts == {OkScript, <<AxiosErr(401, "ERR_BAD_REQUEST", <<>>)>>}

\* a session with a history, stored before the two messages arrive
EarlierSession(cfg) ==
  addMessage(cfg, createNewSession(cfg, "telegram", "u1", 1, 0), "user", <<"earlier">>, 0)

\* the services are constructed and initRedis is done; the store is empty or
\* holds a session of the user
InitTurns ==
  \E earlier \in BOOLEAN :
    LET cfg == [DefaultConfig EXCEPT !.sessionTimeoutSeconds = 1, !.adminUserIds = {"a1"}]
        connected == [NewRedisStorage EXCEPT !.client = TRUE]
    IN /\ config = cfg
       /\ now = 0
       /\ sessions = [k \in Keys |-> Nil]
       /\ nextSessionId = IF earlier THEN 2 ELSE 1
       /\ limiter = [k \in Keys |-> Nil]
       /\ persisted = Nil
       /\ registry = loadConfig(cfg, Nil)
       /\ chat = ChatIdle
       /\ last = NoLast
       /\ lastOf = [k \in Keys |-> NoLast]
       /\ steps = 0
       /\ redis = IF earlier
                    THEN RedisStorageSet(cfg, connected, TurnKey, EarlierSession(cfg), 0)
                    ELSE connected
       /\ held = [variant \in {"memory", "redis"} |-> [k \in Keys |-> Nil]]
       /\ procs = NoProcs

TurnFrame ==
  UNCHANGED <<config, sessions, registry, persisted, chat, last, lastOf, held, steps>>

\* processMessage(message) is called: storage.get(key) of getOrCreateSession is
\* in flight
TurnCall(p) ==
  /\ procs.turn[p].pc = "idle"
  /\ procs' = [procs EXCEPT !.turn[p] =
                 [pc |-> "get", session |-> Nil, thrown |-> Nil, startedAt |-> now,
                  overlapped |-> \E q \in Turns : procs.turn[q].pc \notin {"idle", "done"}]]
  /\ UNCHANGED <<now, nextSessionId, limiter, redis>>
  /\ TurnFrame

\* storage.get(key) answers
TurnGot(p) ==
  LET session == RedisStorageGet(redis, TurnKey, now)
  IN /\ procs.turn[p].pc = "get"
     /\ IF session # Nil /\ Expired(config, session, now)
          THEN /\ procs' = [procs EXCEPT !.turn[p].pc = "delete"]
               /\ UNCHANGED nextSessionId
          ELSE IF session # Nil
            THEN /\ procs' = [procs EXCEPT !.turn[p].pc = "set",
                                !.turn[p].session = [session EXCEPT !.lastActivityAt = now]]
                 /\ UNCHANGED nextSessionId
            ELSE /\ procs' = [procs EXCEPT !.turn[p].pc = "set",
                                !.turn[p].session =
                                  createNewSession(config, "telegram", "u1", nextSessionId,
                                                   now)]
                 /\ nextSessionId' = nextSessionId + 1
     /\ UNCHANGED <<now, limiter, redis>>
     /\ TurnFrame

\* storage.delete(key) of the expired session is done
TurnDeleted(p) ==
  /\ procs.turn[p].pc = "delete"
  /\ redis' = RedisStorageDelete(redis, TurnKey)
  /\ procs' = [procs EXCEPT !.turn[p].pc = "set",
                 !.turn[p].session =
                   createNewSession(config, "telegram", "u1", nextSessionId, now)]
  /\ nextSessionId' = nextSessionId + 1
  /\ UNCHANGED <<now, limiter>>
  /\ TurnFrame

\* storage.set(key, session) is done and getOrCreateSession returns: the checks
\* run, the user's entry is pushed and the storage.set of addMessage is in flight
TurnStored(p, gate) ==
  /\ procs.turn[p].pc = "set"
  /\ redis' = RedisStorageSet(config, redis, TurnKey, procs.turn[p].session, now)
  /\ limiter' = gate.limiter
  /\ procs' = IF gate.thrown # Nil
                THEN [procs EXCEPT !.turn[p].pc = "done", !.turn[p].thrown = gate.thrown]
                ELSE [procs EXCEPT !.turn[p].pc = "setUser",
                        !.turn[p].session =
                          addMessage(config, procs.turn[p].session, "user", gate.content,
                                     now)]
  /\ UNCHANGED <<now, nextSessionId>>
  /\ TurnFrame

\* the set of the user's entry is done: the upstream request is in flight
TurnUserStored(p) ==
  /\ procs.turn[p].pc = "setUser"
  /\ redis' = RedisStorageSet(config, redis, TurnKey, procs.turn[p].session, now)
  /\ procs' = [procs EXCEPT !.turn[p].pc = "upstream"]
  /\ UNCHANGED <<now, nextSessionId, limiter>>
  /\ TurnFrame

\* the chat() of a turn over the history of the session it holds
TurnChat(cfg, reg, session, script) ==
  ChatLoop(cfg,
           ChatStart(cfg, session.conversationHistory,
                     buildSecureSystemPrompt(IF TruthyStr(session.customSystemPrompt)
                                               THEN Get(session.customSystemPrompt)
                                               ELSE reg.globalSystemPrompt),
                     [model |-> IF TruthyName(session.modelOverride)
                                  THEN session.modelOverride ELSE Some(reg.defaultModel),
                      temperature |-> IF session.temperatureOverride # None
                                        THEN session.temperatureOverride
                                        ELSE Some(reg.defaultTemperature),
                      maxTokens |-> Some(reg.defaultMaxTokens)]),
           script)

\* chat() returns or throws: the assistant's entry is pushed and its set is in
\* flight, or the error is answered
TurnAnswered(p, c) ==
  /\ procs.turn[p].pc = "upstream"
  /\ procs' = IF c.pc = "thrown"
                THEN [procs EXCEPT !.turn[p].pc = "done", !.turn[p].thrown = c.error]
                ELSE [procs EXCEPT !.turn[p].pc = "setAssistant",
                        !.turn[p].session =
                          addMessage(config, procs.turn[p].session, "assistant",
                                     validateOutput(c.result.content), now)]
  /\ UNCHANGED <<now, nextSessionId, limiter, redis>>
  /\ TurnFrame

\* the set of the assistant's entry is done: processMessage returns
TurnAssistantStored(p) ==
  /\ procs.turn[p].pc = "setAssistant"
  /\ redis' = RedisStorageSet(config, redis, TurnKey, procs.turn[p].session, now)
  /\ procs' = [procs EXCEPT !.turn[p].pc = "done"]
  /\ UNCHANGED <<now, nextSessionId, limiter>>
  /\ TurnFrame

NextTurns ==
  \/ \E p \in Turns :
       \/ TurnCall(p)
       \/ TurnGot(p)
       \/ TurnDeleted(p)
       \/ TurnStored(p, performSecurityChecks(config, limiter,
                                              normalizeMessage("telegram", "u1", TurnText(p)),
                                              now))
       \/ TurnUserStored(p)
       \/ \E script \in TurnScripts :
            TurnAnswered(p, TurnChat(config, registry, procs.turn[p].session, script))
       \/ TurnAssistantStored(p)
  \/ Tick

SpecTurns == InitTurns /\ [][NextTurns]_vars

\* both turns have completed, they overlapped, and no session can have timed
\* out since the services were constructed
BothTurnsCompleted ==
  /\ \A p \in Turns : procs.turn[p].pc = "done"
  /\ \E p \in Turns : procs.turn[p].overlapped
  /\ now <= config.sessionTimeoutSeconds * 1000

StoredHistory == RedisStorageGet(redis, TurnKey, now).conversationHistory

\* C25: once two concurrently processed messages of one user have completed,
\* the stored session holds the user entries of both.
C25_NoLostUpdate ==
  BothTurnsCompleted =>
    \A p \in Turns :
      \E i \in 1..Len(StoredHistory) : StoredHistory[i] = Entry("user", TurnText(p))

\* the same for two messages of which the second is sent after the first is answered
SequentialTurnsKept ==
  (/\ \A p \in Turns : procs.turn[p].pc = "done"
   /\ \A p \in Turns : ~procs.turn[p].overlapped
   /\ now <= config.sessionTimeoutSeconds * 1000) =>
    \A p \in Turns :
      \E i \in 1..Len(StoredHistory) : StoredHistory[i] = Entry("user", TurnText(p))

(***************************************************************************)
(* Chat turns and commands of two users, with changes of the registry by   *)
(* the admin API between them.  Every message is answered by the upstream  *)
(* at once.                                                                *)
(***************************************************************************)
MaxCfgSteps == 3

CfgTexts ==
  {<<"hello">>, <<"/", "preset", SP, "zero">>, <<"/", "preset", SP, "coder">>,
   <<"/", "model", SP, "sonar">>, <<"/", "reset", SP, "now">>}

\* the routes that change the registry; the requests are those of a caller on
\* the host, with no key set
CfgRoutes ==
  {"PUT /admin/config/prompt", "PUT /admin/config/model", "PUT /admin/config/temperature"}

InitCfg ==
  \E d \in StartDocuments : Constructed([DefaultConfig EXCEPT !.adminUserIds = {"a1"}], d)

CfgMessage(platform, userId, text) ==
  /\ steps < MaxCfgSteps
  /\ AdapterAccepts(platform, text)
  /\ Processing(getSessionKey(platform, userId),
                normalizeMessage(platform, userId, text),
                "none",
                processMessage(config, registry, sessions, limiter, nextSessionId,
                               normalizeMessage(platform, userId, text), OkScript, "none",
                               now))
  /\ steps' = steps + 1
  /\ UNCHANGED <<redis, held, procs, config, registry, persisted>>

\* a request of the admin API is answered; lastOf remembers for every user that
\* the registry was changed and what the user had done before
CfgAdmin(routed) ==
  /\ steps < MaxCfgSteps
  /\ steps' = steps + 1
  /\ registry' = AdminApp(config, registry, persisted, Request(routed, <<None, "127.0.0.1">>),
                          "written", FALSE).registry
  /\ persisted' = AdminApp(config, registry, persisted,
                           Request(routed, <<None, "127.0.0.1">>), "written",
                           FALSE).persisted
  /\ last' = [op |-> "admin", request |-> Request(routed, <<None, "127.0.0.1">>),
              reply |-> AdminApp(config, registry, persisted,
                                 Request(routed, <<None, "127.0.0.1">>), "written",
                                 FALSE).reply,
              write |-> "written", registry |-> registry, persisted |-> persisted]
  /\ lastOf' = [k \in Keys |-> [op |-> "admin", before |-> lastOf[k].op]]
  /\ UNCHANGED <<redis, held, procs, config, now, sessions, nextSessionId, limiter, chat>>

\* the requests to the routes that change the defaults
CfgRouted == UNION {RequestsTo(route) : route \in CfgRoutes}

NextCfg ==
  \/ \E sender \in Senders, text \in CfgTexts : CfgMessage(sender[1], sender[2], text)
  \/ \E routed \in CfgRouted : CfgAdmin(routed)

SpecCfg == InitCfg /\ [][NextCfg]_vars

\* C27: the request of a chat turn carries the custom prompt of the session
\* when it has one and else the global prompt of the registry, the model
\* override when the session has one and else the default model of the
\* registry, the temperature override when the session has one (0 included) and
\* else the default temperature of the registry, and the default maxTokens of
\* the registry; the values of the registry are those at the time of the turn.
C27_EffectiveSettings ==
  ChatTurn =>
    /\ Wrapped(chat.request,
               IF ResolvedSession.customSystemPrompt \notin {None, Some(<<>>)}
                 THEN Get(ResolvedSession.customSystemPrompt)
                 ELSE registry.globalSystemPrompt)
    /\ chat.request.model =
         (IF ResolvedSession.modelOverride # None THEN Get(ResolvedSession.modelOverride)
          ELSE registry.defaultModel)
    /\ chat.request.temperature =
         (IF ResolvedSession.temperatureOverride # None
            THEN Get(ResolvedSession.temperatureOverride)
          ELSE registry.defaultTemperature)
    /\ chat.request.max_tokens = registry.defaultMaxTokens

\* a session without overrides that had a turn before the default model was
\* changed sends the new default model at its next turn
C27_Witness ==
  /\ ChatTurn
  /\ ~last.created
  /\ last.prev = [op |-> "admin", before |-> "processMessage"]
  /\ ResolvedSession.modelOverride = None
  /\ chat.request.model = "sonar-reasoning-pro"

\* a session with a temperature override of 0 sends 0
C27_ZeroOverrideSent ==
  /\ ChatTurn
  /\ ResolvedSession.temperatureOverride = Some(0)
  /\ registry.defaultTemperature # 0
  /\ chat.request.temperature = 0

(***************************************************************************)
(* The error of a call whose attempts all failed                           *)
(***************************************************************************)
Retryable(o) == o.kind # "ok" /\ ~Is4xxNot429(o)

IsTimeout(o) == o.kind = "axios" /\ o.status = 0 /\ o.code \in {"ECONNABORTED", "ETIMEDOUT"}

\* all three attempts of the call failed with errors that are retried
Exhausted ==
  /\ chat.pc = "thrown"
  /\ Len(chat.requests) = 3
  /\ \A i \in 1..3 : Retryable(chat.requests[i])

\* C28: when all three attempts fail with retried errors, the error raised is
\* decided by the last error alone: API_RATE_LIMITED after a 429, API_TIMEOUT
\* with status 504 after ECONNABORTED or ETIMEDOUT, API_ERROR after a 5xx
\* response or another network error.
C28_LastErrorDecides ==
  Exhausted =>
    /\ Is429(LastRequest) =>
         (chat.error.code = "API_RATE_LIMITED" /\ chat.error.statusCode = 429)
    /\ IsTimeout(LastRequest) =>
         (chat.error.code = "API_TIMEOUT" /\ chat.error.statusCode = 504)
    /\ Is5xx(LastRequest) =>
         (chat.error.code = "API_ERROR" /\ chat.error.statusCode = LastRequest.status)
    /\ (~Is429(LastRequest) /\ ~IsTimeout(LastRequest) /\ ~Is5xx(LastRequest)) =>
         (chat.error.code = "API_ERROR" /\ chat.error.statusCode = 500)

\* a 429, then a 500, then a timeout: the call raises API_TIMEOUT
C28_Witness ==
  /\ Exhausted
  /\ Is429(chat.requests[1])
  /\ Is5xx(chat.requests[2])
  /\ IsTimeout(LastRequest)
  /\ chat.error.code = "API_TIMEOUT"

(***************************************************************************)
(* Saving and reloading the registry                                       *)
(***************************************************************************)
\* reloadConfig has returned, and the document it read was written from the
\* configuration in memory (the write of the last mutation succeeded)
ReloadedWhatWasSaved ==
  last.op = "reloadConfig" /\ last.persisted = Document(last.registry)

\* C30: after mutations whose writes succeeded, reloadConfig leaves the
\* configuration in memory equal to what it was just before the reload; a
\* preset removed by deletePreset is still absent.
C30_ReloadIdentity == ReloadedWhatWasSaved => registry = last.registry

\* the same while the registry holds every preset of the built-in configuration
ReloadIdentityWithBuiltIns ==
  (/\ ReloadedWhatWasSaved
   /\ DOMAIN getDefaultConfig(config).presets \subseteq DOMAIN last.registry.presets)
  => registry = last.registry

(***************************************************************************)
(* Commands that choose a model or a preset, with presets created and the  *)
(* default model set by the admin API between them.                        *)
(***************************************************************************)
PresetTexts ==
  {<<"hello">>, <<"/", "preset", SP, "custom">>, <<"/", "preset", SP, "coder">>,
   <<"/", "preset", SP, "default">>, <<"/", "preset", SP, "nosuch">>,
   <<"/", "model", SP, "gpt-4">>, <<"/", "model", SP, "sonar">>,
   <<"/", "reset", SP, "now">>}

\* PUT /admin/presets/custom with and without a model and a temperature, and
\* the requests that set the default model
PresetRouted ==
  {Route("PUT /admin/presets/:key", "custom",
         Body(JString(<<"You are custom.">>), m, t, JString(<<"Custom">>),
              JString(<<"custom">>))) :
     m \in {Nil, JName("gpt-4"), JName("sonar")}, t \in {Nil, JNumber(0)}}
  \cup RequestsTo("PUT /admin/config/model")

NextPresets ==
  \/ \E sender \in Senders, text \in PresetTexts : CfgMessage(sender[1], sender[2], text)
  \/ \E routed \in PresetRouted : CfgAdmin(routed)

SpecPresets == InitCfg /\ [][NextPresets]_vars

\* a /model command that names a model
ModelNamed ==
  /\ Processed
  /\ last.gate = "passed"
  /\ last.msg.isCommand
  /\ last.msg.command = Some(<<"model">>)
  /\ last.msg.commandArgs # <<>>

\* C31: the model named in every upstream chat request is a member of the
\* available-model list, whatever /model, /preset and /reset commands and admin
\* calls that set the default model or create or update presets came before;
\* /model with a name outside the list returns an error reply and leaves
\* modelOverride unchanged.
C31_ModelAvailable ==
  /\ ChatTurn => chat.request.model \in AvailableModels
  /\ (ModelNamed /\ AsName(ToLowerCase(last.msg.commandArgs[1])) \notin AvailableModels) =>
       /\ last.response.error = TRUE
       /\ sessions[last.key].modelOverride = ResolvedSession.modelOverride

\* the commands and the route of the default model keep to the list
UnknownModelRejected ==
  /\ (ModelNamed /\ AsName(ToLowerCase(last.msg.commandArgs[1])) \notin AvailableModels) =>
       /\ last.response.error = TRUE
       /\ sessions[last.key] = ResolvedSession
  /\ registry.defaultModel \in AvailableModels

\* a /preset command that names a preset
PresetNamed ==
  /\ Processed
  /\ last.gate = "passed"
  /\ last.msg.isCommand
  /\ last.msg.command = Some(<<"preset">>)
  /\ last.msg.commandArgs # <<>>

PresetKey == AsName(ToLowerCase(last.msg.commandArgs[1]))

C32_UnknownRejected ==
  /\ PresetNamed
  /\ PresetKey \notin DOMAIN registry.presets
  /\ ResolvedSession.modelOverride # None

(***************************************************************************)
(* Chat turns whose answers carry citation markers and citations, with     *)
(* the return of citations enabled or disabled.                            *)
(***************************************************************************)
MaxCiteSteps == 3

CiteTexts == {<<"hello">>, <<"jailbreak">>}

CiteScripts ==
  {<<OkOutcome(<<"Paris is the capital", "[1]", "[2]", ".">>,
               Some(<<"https://a.example", "https://b.example">>))>>,
   <<OkOutcome(<<"Paris", SP, "[1]", SP, "is", "[2]">>, Some(<<>>))>>,
   <<OkOutcome(<<"Paris">>, None)>>,
   <<AxiosErr(401, "ERR_BAD_REQUEST", <<>>)>>}

\* RETURN_CITATIONS of the environment
InitCite ==
  \E b \in BOOLEAN : Constructed([DefaultConfig EXCEPT !.returnCitations = b], Nil)

CiteMessage(platform, userId, text, script) ==
  /\ steps < MaxCiteSteps
  /\ AdapterAccepts(platform, text)
  /\ Processing(getSessionKey(platform, userId),
                normalizeMessage(platform, userId, text),
                "none",
                processMessage(config, registry, sessions, limiter, nextSessionId,
                               normalizeMessage(platform, userId, text), script, "none",
                               now))
  /\ steps' = steps + 1
  /\ UNCHANGED <<redis, held, procs, config, registry, persisted>>

NextCite ==
  \E sender \in Senders, text \in CiteTexts, script \in CiteScripts :
    CiteMessage(sender[1], sender[2], text, script)

SpecCite == InitCite /\ [][NextCite]_vars

\* the texts that only the reply of a turn carries
ReplyOnlyAtoms == {"[warning] ", "\n\n[books] Sources:\n"} \cup {InjectionWarning[1]}

HasReplyOnly(content) == \E i \in 1..Len(content) : content[i] \in ReplyOnlyAtoms

\* C33: a successful chat turn appends exactly two entries to the history, the
\* sanitized user message and then the validated output of the model; the
\* warning banner and the citation list are in the reply only, in no stored
\* entry and in no message of an upstream request.
C33_TwoEntriesStored ==
  /\ AnsweredTurn =>
       sessions[last.key].conversationHistory =
         ResolvedHistory \o <<Entry("user", SanitizedContent),
                              Entry("assistant", validateOutput(chat.result.content))>>
  /\ \A k \in Keys :
       sessions[k] # Nil =>
         \A i \in 1..Len(sessions[k].conversationHistory) :
           ~HasReplyOnly(sessions[k].conversationHistory[i].content)
  /\ chat.pc # "idle" =>
       \A i \in 2..Len(chat.request.messages) :
         ~HasReplyOnly(chat.request.messages[i].content)

\* a later turn of a session whose reply carries the banner and the list
C33_Witness ==
  /\ AnsweredTurn
  /\ ResolvedHistory # <<>>
  /\ Len(chat.request.messages) >= 4
  /\ Head(last.response.content) = "[warning] "
  /\ \E i \in 1..Len(last.response.content) :
       last.response.content[i] = "\n\n[books] Sources:\n"

\* the response of the upstream that chat() returned from
Upstream == chat.requests[Len(chat.requests)]

NoBlanks(s) == SelectSeq(s, LAMBDA a : a \notin WsAtoms)

\* C36: with the return of citations disabled the text chat returns holds no
\* marker [n] and no run of blanks, the rest of the upstream text is kept, the
\* result carries no citations even when the upstream sent some, and the reply
\* holds no Sources list; with it enabled the text and the citations are those
\* of the upstream.
C36_MarkersStripped ==
  AnsweredTurn =>
    IF config.returnCitations
      THEN /\ chat.result.content = Upstream.content
           /\ chat.result.citations = Upstream.citations
      ELSE /\ \A i \in 1..Len(chat.result.content) : chat.result.content[i] \notin MarkerAtoms
           /\ \A i \in 1..Len(chat.result.content) - 1 :
                ~(chat.result.content[i] \in WsAtoms /\ chat.result.content[i + 1] \in WsAtoms)
           /\ NoBlanks(chat.result.content) =
                SelectSeq(NoBlanks(Upstream.content), LAMBDA a : a \notin MarkerAtoms)
           /\ Upstream.content = <<"Paris is the capital", "[1]", "[2]", ".">> =>
                chat.result.content = <<"Paris is the capital", ".">>
           /\ chat.result.citations = None
           /\ last.response.citations = None
           /\ \A i \in 1..Len(last.response.content) :
                last.response.content[i] # "\n\n[books] Sources:\n"

\* citations disabled, and the upstream sent markers and citations
C36_Witness ==
  /\ AnsweredTurn
  /\ ~config.returnCitations
  /\ Upstream.citations \notin {None, Some(<<>>)}
  /\ Upstream.content # chat.result.content

\* citations enabled: the reply ends with the Sources list
C36_SourcesReturned ==
  /\ AnsweredTurn
  /\ config.returnCitations
  /\ last.response.citations = Upstream.citations
  /\ \E i \in 1..Len(last.response.content) :
       last.response.content[i] = "\n\n[books] Sources:\n"

(***************************************************************************)
(* The setters of the default temperature (in tenths) and of the default   *)
(* max tokens, called with values inside, at and beyond their limits, and  *)
(* the temperature route of the admin API.                                 *)
(***************************************************************************)
Temperatures == {-5, 0, 3, 20, 21, 25}
TokenCounts == {-3, 0, 1, 100, 8192, 8193, 9000}

TemperatureRouted == RequestsTo("PUT /admin/config/temperature")

NextClamp ==
  \/ \E t \in Temperatures, w \in WriteOutcomes : RegSetTemperature(t, w)
  \/ \E n \in TokenCounts, w \in WriteOutcomes : RegSetMaxTokens(n, w)
  \/ \E routed \in TemperatureRouted : CfgAdmin(routed)

SpecClamp == InitRegistry /\ [][NextClamp]_vars

\* the temperature route was asked for a number outside [0, 2]
TemperatureOutside ==
  /\ last.op = "admin"
  /\ last.request.body.temperature # Nil
  /\ last.request.body.temperature.type = "number"
  /\ \/ last.request.body.temperature.number < 0
     \/ last.request.body.temperature.number > 20

\* C34: setDefaultTemperature stores min(2, max(0, t)) and setDefaultMaxTokens
\* stores min(8192, max(1, n)), so the default temperature of the registry stays
\* in [0, 2] and its default max tokens in [1, 8192]; the temperature route of
\* the admin API answers a value outside [0, 2] with 400 and leaves the registry
\* as it was.
C34_SettersClamp ==
  /\ last.op = "setDefaultTemperature" =>
       registry.defaultTemperature = Min(20, Max(0, last.arg))
  /\ last.op = "setDefaultMaxTokens" =>
       registry.defaultMaxTokens = Min(8192, Max(1, last.arg))
  /\ registry.defaultTemperature \in 0..20
  /\ registry.defaultMaxTokens \in 1..8192
  /\ TemperatureOutside =>
       /\ last.reply.status = 400
       /\ registry = last.registry
       /\ persisted = last.persisted

\* 2.5 was stored as 2
C34_Witness ==
  /\ last.op = "setDefaultTemperature"
  /\ last.arg = 25
  /\ registry.defaultTemperature = 20
  /\ last.registry.defaultTemperature # 20

\* 9000 tokens were stored as 8192, and 0 tokens as 1
C34_TokensClamped ==
  /\ last.op = "setDefaultMaxTokens"
  /\ \/ last.arg = 9000 /\ registry.defaultMaxTokens = 8192
     \/ last.arg = 0 /\ registry.defaultMaxTokens = 1

\* the route rejected 2.5
C34_RouteRejected == TemperatureOutside /\ last.request.body.temperature.number = 25

(***************************************************************************)
(* loadConfig over the documents data/ai-config.json may hold: every field *)
(* absent, present, or present with a falsy value; presets that override a *)
(* built-in key and presets under a new key; no file and a file that does  *)
(* not parse.  The registry is loaded at construction and at every reload. *)
(***************************************************************************)
CoderOverride == Preset("My Coder", <<"my coder prompt">>, None, Some(0))

LoadDocuments ==
  {Nil, Corrupt}
  \cup {[globalSystemPrompt |-> p, defaultModel |-> m, defaultTemperature |-> t,
         defaultMaxTokens |-> n, presets |-> ps] :
          p \in {None, Some(<<>>), Some(<<"persisted prompt">>)},
          m \in {None, Some(""), Some("sonar")},
          t \in {None, Some(0), Some(12)},
          n \in {None, Some(100)},
          ps \in {None, Some([k \in {} |-> Nil]),
                  Some([k \in {"coder", "zero"} |->
                          IF k = "coder" THEN CoderOverride ELSE ZeroPreset])}}

InitLoad == \E d \in LoadDocuments : Constructed(DefaultConfig, d)

NextLoad == RegReload

SpecLoad == InitLoad /\ [][NextLoad]_vars

\* the registry is what loadConfig returned for the document
Loaded == last.op \in {"none", "reloadConfig"}
Readable == persisted # Nil /\ persisted # Corrupt
BuiltIn == getDefaultConfig(config)
PersistedPresets ==
  IF persisted.presets = None THEN [k \in {} |-> Nil] ELSE Get(persisted.presets)

\* the presets of the document override the built-in ones key by key, and every
\* built-in key absent from the document is loaded
PresetsMerged ==
  /\ DOMAIN registry.presets = DOMAIN BuiltIn.presets \cup DOMAIN PersistedPresets
  /\ \A k \in DOMAIN PersistedPresets : registry.presets[k] = PersistedPresets[k]
  /\ \A k \in DOMAIN BuiltIn.presets \ DOMAIN PersistedPresets :
       registry.presets[k] = BuiltIn.presets[k]

NumbersMerged ==
  /\ registry.defaultTemperature =
       (IF persisted.defaultTemperature # None THEN Get(persisted.defaultTemperature)
        ELSE BuiltIn.defaultTemperature)
  /\ registry.defaultMaxTokens =
       (IF persisted.defaultMaxTokens # None THEN Get(persisted.defaultMaxTokens)
        ELSE BuiltIn.defaultMaxTokens)

\* C35: a loaded document is merged with the built-in configuration field by
\* field: every field present in the document takes the persisted value, every
\* absent field the built-in value, a preset key of the document overrides the
\* built-in preset of that key and every built-in key absent from the document
\* is loaded; with no readable document the built-in configuration is used.
C35_PersistedWins ==
  Loaded =>
    IF Readable
      THEN /\ registry.globalSystemPrompt =
                (IF persisted.globalSystemPrompt # None
                   THEN Get(persisted.globalSystemPrompt)
                   ELSE BuiltIn.globalSystemPrompt)
           /\ registry.defaultModel =
                (IF persisted.defaultModel # None THEN Get(persisted.defaultModel)
                 ELSE BuiltIn.defaultModel)
           /\ NumbersMerged
           /\ PresetsMerged
      ELSE registry = BuiltIn

\* the same, with an empty global prompt and an empty default model of the
\* document counted as absent
C35_NonEmptyPersistedWins ==
  Loaded =>
    IF Readable
      THEN /\ registry.globalSystemPrompt =
                (IF persisted.globalSystemPrompt \notin {None, Some(<<>>)}
                   THEN Get(persisted.globalSystemPrompt)
                   ELSE BuiltIn.globalSystemPrompt)
           /\ registry.defaultModel =
                (IF persisted.defaultModel \notin {None, Some("")}
                   THEN Get(persisted.defaultModel)
                   ELSE BuiltIn.defaultModel)
           /\ NumbersMerged
           /\ PresetsMerged
      ELSE registry = BuiltIn

\* a reload of a document with an empty prompt, the temperature 0 and a preset
\* that overrides 'coder'
C35_Witness ==
  /\ last.op = "reloadConfig"
  /\ Readable
  /\ persisted.globalSystemPrompt = Some(<<>>)
  /\ persisted.defaultTemperature = Some(0)
  /\ registry.defaultTemperature = 0
  /\ registry.globalSystemPrompt = BuiltIn.globalSystemPrompt
  /\ registry.presets["coder"] = CoderOverride
  /\ "researcher" \in DOMAIN registry.presets

(***************************************************************************)
(* WhatsAppAdapter: the events of the client and the timers of             *)
(* handleDisconnect.  A handler runs to its first await in one step; the   *)
(* timer of a reconnection fires when it is the earliest one pending, and  *)
(* client.initialize() is then called (whether it resolves or throws       *)
(* changes no field of the adapter).                                       *)
(***************************************************************************)
maxReconnectAttempts == 5
MaxWaSteps == 8

\* handleDisconnect without the test of the counter
handleDisconnectUnbounded(adapter) ==
  [adapter EXCEPT
     !.reconnectAttempts = @ + 1,
     !.timers = Append(@, [attempt |-> adapter.reconnectAttempts + 1,
                           setAt |-> adapter.clock,
                           due |-> adapter.clock
                                   + Min(1000 * 2 ^ (adapter.reconnectAttempts + 1),
                                         30000)])]

\* handleDisconnect up to its await of the timer
handleDisconnect(adapter) ==
  IF adapter.reconnectAttempts >= maxReconnectAttempts THEN adapter
  ELSE [adapter EXCEPT
          !.reconnectAttempts = @ + 1,
          !.timers = Append(@, [attempt |-> adapter.reconnectAttempts + 1,
                                setAt |-> adapter.clock,
                                due |-> adapter.clock
                                        + Min(1000 * 2 ^ (adapter.reconnectAttempts + 1),
                                              30000)])]

WaFrame ==
  UNCHANGED <<config, now, sessions, nextSessionId, limiter, registry, persisted, chat,
              lastOf, redis, held>>

\* an event of the client is handled
WaEvent(event, adapter) ==
  /\ steps < MaxWaSteps
  /\ steps' = steps + 1
  /\ procs' = [procs EXCEPT !.whatsapp = adapter]
  /\ last' = [op |-> event, before |-> procs.whatsapp]
  /\ WaFrame

WaAuthenticated ==
  WaEvent("authenticated", [procs.whatsapp EXCEPT !.reconnectAttempts = 0])

WaAuthFailure == WaEvent("auth_failure", procs.whatsapp)

WaReady == WaEvent("ready", [procs.whatsapp EXCEPT !.isReady = TRUE])

WaDisconnected ==
  WaEvent("disconnected", handleDisconnect([procs.whatsapp EXCEPT !.isReady = FALSE]))

\* the sequence without its i-th member
Without(q, i) == SubSeq(q, 1, i - 1) \o SubSeq(q, i + 1, Len(q))

\* the earliest timer fires (of two due together, the one set first):
\* handleDisconnect goes on to client.initialize()
WaTimer ==
  \E i \in 1..Len(procs.whatsapp.timers) :
    /\ \A j \in 1..Len(procs.whatsapp.timers) :
         \/ procs.whatsapp.timers[i].due < procs.whatsapp.timers[j].due
         \/ procs.whatsapp.timers[i].due = procs.whatsapp.timers[j].due /\ i <= j
    /\ procs' = [procs EXCEPT !.whatsapp.timers = Without(@, i),
                              !.whatsapp.clock = procs.whatsapp.timers[i].due,
                              !.whatsapp.initialized = @ + 1]
    /\ last' = [op |-> "timer", before |-> procs.whatsapp,
                timer |-> procs.whatsapp.timers[i]]
    /\ UNCHANGED steps
    /\ WaFrame

NextWa ==
  \/ WaAuthenticated
  \/ WaAuthFailure
  \/ WaReady
  \/ WaDisconnected
  \/ WaTimer

SpecWa == Constructed(DefaultConfig, Nil) /\ [][NextWa]_vars

WaHandled == last.op \in {"authenticated", "auth_failure", "ready", "disconnected", "timer"}

\* the timers set since the state before the last step
NewTimers ==
  SubSeq(procs.whatsapp.timers, Len(last.before.timers) + 1, Len(procs.whatsapp.timers))

\* C37: reconnectAttempts never exceeds 5; a 'disconnected' event while the
\* counter is below 5 increments it once and sets one re-initialization of the
\* client min(1000 * 2^attempt, 30000) ms later, a 'disconnected' event at 5
\* sets none, and only an 'authenticated' event resets the counter to 0.
C37_ReconnectBounded ==
  /\ procs.whatsapp.reconnectAttempts \in 0..5
  /\ WaHandled =>
       /\ last.op = "disconnected" /\ last.before.reconnectAttempts < 5 =>
            /\ procs.whatsapp.reconnectAttempts = last.before.reconnectAttempts + 1
            /\ Len(NewTimers) = 1
            /\ NewTimers[1].due - procs.whatsapp.clock =
                 Min(1000 * 2 ^ procs.whatsapp.reconnectAttempts, 30000)
       /\ last.op = "disconnected" /\ last.before.reconnectAttempts = 5 =>
            /\ procs.whatsapp.reconnectAttempts = 5
            /\ procs.whatsapp.timers = last.before.timers
       /\ last.op = "timer" =>
            /\ procs.whatsapp.initialized = last.before.initialized + 1
            /\ procs.whatsapp.clock - last.timer.setAt =
                 Min(1000 * 2 ^ last.timer.attempt, 30000)
            /\ procs.whatsapp.reconnectAttempts = last.before.reconnectAttempts
       /\ last.op = "authenticated" => procs.whatsapp.reconnectAttempts = 0
       /\ last.op \in {"auth_failure", "ready"} =>
            procs.whatsapp.reconnectAttempts = last.before.reconnectAttempts

\* a 'disconnected' event at 5 attempts, after the fifth timer of 30000 ms
C37_Witness ==
  /\ last.op = "disconnected"
  /\ last.before.reconnectAttempts = 5
  /\ procs.whatsapp.initialized = 5
  /\ procs.whatsapp.clock >= 30000

\* the counter was reset from 5
C37_ResetFromCap ==
  /\ last.op = "authenticated"
  /\ last.before.reconnectAttempts = 5
  /\ procs.whatsapp.reconnectAttempts = 0

(***************************************************************************)
(* splitMessage of the Telegram and the WhatsApp adapter (the two are the  *)
(* same text).  A text is a sequence of characters; every iteration of the *)
(* while loop is one step.                                                 *)
(***************************************************************************)
MaxTextLen == 5
MaxChunkLen == 3
MaxSplitCalls == 1

NL == "\n"
Characters == {"a", "b", SP, NL}
WhiteSpace == {SP, NL}

TextsOfLen(n) == [1..n -> Characters]
Texts == UNION {TextsOfLen(n) : n \in 0..MaxTextLen}

\* String.prototype.lastIndexOf(searchString, position), indices from 0
LastIndexOf(s, searchString, position) ==
  LET found == {i \in 0..Min(position, Len(s) - Len(searchString)) :
                  SubSeq(s, i + 1, i + Len(searchString)) = searchString}
  IN IF found = {} THEN -1 ELSE CHOOSE i \in found : \A j \in found : j <= i

\* String.prototype.slice(start) and slice(0, end) for 0 <= start, end
SliceFrom(s, start) == SubSeq(s, Min(start, Len(s)) + 1, Len(s))
SliceTo(s, end) == SubSeq(s, 1, Min(end, Len(s)))

\* String.prototype.trim on characters
RECURSIVE TrimStartChars(_)
TrimStartChars(s) ==
  IF s # <<>> /\ Head(s) \in WhiteSpace THEN TrimStartChars(Tail(s)) ELSE s
RECURSIVE TrimEndChars(_)
TrimEndChars(s) ==
  IF s # <<>> /\ s[Len(s)] \in WhiteSpace THEN TrimEndChars(SubSeq(s, 1, Len(s) - 1))
  ELSE s
TrimChars(s) == TrimEndChars(TrimStartChars(s))

\* a break point is taken only in the second half of the window
NoBreakAt(index, maxLength) == index = -1 \/ 2 * index < maxLength

\* the split index taking any break point of the window
SplitIndexAnyBreak(remaining, maxLength) ==
  LET paragraph == LastIndexOf(remaining, <<NL, NL>>, maxLength)
      line == LastIndexOf(remaining, <<NL>>, maxLength)
      blank == LastIndexOf(remaining, <<SP>>, maxLength)
  IN IF paragraph # -1 THEN paragraph
     ELSE IF line # -1 THEN line
     ELSE IF blank # -1 THEN blank
     ELSE maxLength

\* the index at which one iteration splits `remaining`
SplitIndex(remaining, maxLength) ==
  LET paragraph == LastIndexOf(remaining, <<NL, NL>>, maxLength)
      line == LastIndexOf(remaining, <<NL>>, maxLength)
      blank == LastIndexOf(remaining, <<SP>>, maxLength)
  IN IF ~NoBreakAt(paragraph, maxLength) THEN paragraph
     ELSE IF ~NoBreakAt(line, maxLength) THEN line
     ELSE IF ~NoBreakAt(blank, maxLength) THEN blank
     ELSE maxLength

SplitFrame ==
  UNCHANGED <<config, now, sessions, nextSessionId, limiter, registry, persisted, chat,
              lastOf, redis, held, procs>>

\* splitMessage is called: a text that fits is returned as one chunk
SplitCall(text, maxLength) ==
  /\ steps < MaxSplitCalls
  /\ IF last.op = "splitMessage" THEN last.pc = "returned" ELSE TRUE
  /\ steps' = steps + 1
  /\ last' = IF Len(text) <= maxLength
               THEN [op |-> "splitMessage", pc |-> "returned", text |-> text,
                     maxLength |-> maxLength, remaining |-> text, chunks |-> <<text>>]
               ELSE [op |-> "splitMessage", pc |-> "loop", text |-> text,
                     maxLength |-> maxLength, remaining |-> text, chunks |-> <<>>]
  /\ SplitFrame

\* the test of the while loop and one run of its body
SplitIterate ==
  /\ last.op = "splitMessage"
  /\ last.pc = "loop"
  /\ last' =
       IF Len(last.remaining) = 0 THEN [last EXCEPT !.pc = "returned"]
       ELSE IF Len(last.remaining) <= last.maxLength
         THEN [last EXCEPT !.pc = "returned", !.chunks = Append(@, last.remaining)]
       ELSE [last EXCEPT
               !.chunks = Append(@, SliceTo(last.remaining,
                                            SplitIndex(last.remaining, last.maxLength))),
               !.remaining = TrimChars(SliceFrom(last.remaining,
                                                 SplitIndex(last.remaining,
                                                            last.maxLength)))]
  /\ UNCHANGED steps
  /\ SplitFrame

NextSplit ==
  \/ \E text \in Texts, maxLength \in 1..MaxChunkLen : SplitCall(text, maxLength)
  \/ SplitIterate

\* the loop is code that runs: its next iteration is taken
SpecSplit == Constructed(DefaultConfig, Nil) /\ [][NextSplit]_vars /\ WF_vars(SplitIterate)

Splitting == last.op = "splitMessage"
SplitReturned == Splitting /\ last.pc = "returned"

\* the chunks are pieces of the text in its order, with nothing but white space
\* between and after them
RECURSIVE InOrder(_, _)
InOrder(text, chunks) ==
  IF chunks = <<>> THEN \A i \in 1..Len(text) : text[i] \in WhiteSpace
  ELSE /\ Len(Head(chunks)) <= Len(text)
       /\ SubSeq(text, 1, Len(Head(chunks))) = Head(chunks)
       /\ \E k \in 0..(Len(text) - Len(Head(chunks))) :
            /\ \A i \in 1..k : text[Len(Head(chunks)) + i] \in WhiteSpace
            /\ InOrder(SubSeq(text, Len(Head(chunks)) + k + 1, Len(text)), Tail(chunks))

C38_Safety ==
  Splitting =>
    /\ \A i \in 1..Len(last.chunks) : Len(last.chunks[i]) <= last.maxLength
    /\ Len(last.text) <= last.maxLength => SplitReturned /\ last.chunks = <<last.text>>
    /\ Len(last.text) > last.maxLength =>
         /\ \A i \in 1..Len(last.chunks) : last.chunks[i] # <<>>
         /\ InOrder(last.text,
                    IF last.pc = "loop" THEN Append(last.chunks, last.remaining)
                    ELSE last.chunks)

\* C38: for every text and every maxLength >= 1 splitMessage terminates and every
\* chunk has at most maxLength characters; a text of at most maxLength characters
\* gives one chunk equal to the text, and a longer text gives non-empty chunks in
\* the order of the text.
C38_SplitTerminates == []C38_Safety /\ ((Splitting /\ last.pc = "loop") ~> SplitReturned)

\* a text split at a blank that is trimmed away, into a chunk at the limit and a
\* shorter one, and a text split at a line break before the limit
C38_Witness ==
  /\ SplitReturned
  /\ Len(last.chunks) = 2
  /\ Len(last.text) > Len(last.chunks[1]) + Len(last.chunks[2])
  /\ Len(last.chunks[1]) = last.maxLength

C38_BreakBeforeLimit ==
  /\ SplitReturned
  /\ Len(last.chunks) >= 2
  /\ Len(last.chunks[1]) < last.maxLength
  /\ last.text[Len(last.chunks[1]) + 1] = NL

====
